---- MODULE Spec2Model ----
(***************************************************************************)
(* Model of the mlb-odds scraper: src/main.py (argument parsing, get_odds, *)
(* the scheduler loop) and src/utils.py (MainCategory, SubCategory,        *)
(* EventInfo, clean_odds, split_teams).                                    *)
(*                                                                         *)
(* Text is a sequence of one-character strings; a word that no operation   *)
(* of the program looks into ("Today", the words of a category name) is    *)
(* one element.  A printable ASCII character is written as itself, tab,    *)
(* line feed, carriage return and form feed as "\t", "\n", "\r" and "\f",  *)
(* any other character (and the grave accent, which a string of TLA+       *)
(* cannot hold) by its code point: "U+000B" is the vertical tab,           *)
(* "U+00A0" the no-break space, "U+0665" the Arabic-Indic digit five,      *)
(* "U+2212" the minus sign, "U+FF0D" the fullwidth hyphen-minus, "U+FF0B"  *)
(* the fullwidth plus sign.  The tables of characters are those of the     *)
(* Unicode database of the Python that runs the program (Unicode 14.0).    *)
(* An instant is a number of minutes; a float is the decimal it is read    *)
(* from.                                                                   *)
(***************************************************************************)
EXTENDS Integers, Sequences, FiniteSets, Bags, TLC

VARIABLES
    raw,        \* get_match_table: row_data[k].get_text() of one odds cell
    text,       \* get_match_table: over_uncleaned / under_uncleaned (after NFKC)
    cleaned,    \* get_match_table: the pair returned by clean_odds
    argv,       \* the command line: which of -m and -s were given
    args,       \* main.py: args = parser.parse_args()
    site,       \* which markup the sportsbook serves
    tz,         \* the system's local time zone: its UTC offsets, in minutes
    now,        \* the last reading of the system clock, in minutes (UTC)
    pc,         \* where the main thread is
    runs,       \* how many times get_odds has been called
    cat,        \* get_odds: the main category being gathered (1 batter, 2 pitcher)
    df,         \* MainCategory.df of batter_props and of pitcher_props
    tables,     \* gather_odds: tables
    submitted,  \* gather_odds: how many futures executor.submit has created
    exc,        \* the exception propagating in the main thread
    task,       \* gather_odds: one SubCategory (and its future) per subcategory
    csv         \* the file odds.csv

oddsVars == <<raw, text, cleaned>>

progVars == <<argv, args, site, tz, now, pc, runs, cat, df, tables, submitted,
              exc, task, csv>>

vars == <<raw, text, cleaned, argv, args, site, tz, now, pc, runs, cat, df,
          tables, submitted, exc, task, csv>>

\* Python's None, and a value that is present: an optional value is a sequence
\* of length 0 or 1
None == <<>>

Some(x) == <<x>>

Get(o) == o[1]

(***************************************************************************)
(* Characters                                                              *)
(***************************************************************************)
\* the ASCII digits: what the classes [0-5], [1-9], [0-2] of strptime's
\* patterns are made of
AsciiDigit == {"0", "1", "2", "3", "4", "5", "6", "7", "8", "9"}

\* the decimal digits (category Nd), script by script from zero to nine:
\* what \d matches in a str pattern, and what int() and float() read
DecimalDigits ==
    << << "0", "1", "2", "3", "4", "5", "6", "7", "8", "9">>,
       << "U+0660", "U+0661", "U+0662", "U+0663", "U+0664", "U+0665",
         "U+0666", "U+0667", "U+0668", "U+0669">>,
       << "U+06F0", "U+06F1", "U+06F2", "U+06F3", "U+06F4", "U+06F5",
         "U+06F6", "U+06F7", "U+06F8", "U+06F9">>,
       << "U+07C0", "U+07C1", "U+07C2", "U+07C3", "U+07C4", "U+07C5",
         "U+07C6", "U+07C7", "U+07C8", "U+07C9">>,
       << "U+0966", "U+0967", "U+0968", "U+0969", "U+096A", "U+096B",
         "U+096C", "U+096D", "U+096E", "U+096F">>,
       << "U+09E6", "U+09E7", "U+09E8", "U+09E9", "U+09EA", "U+09EB",
         "U+09EC", "U+09ED", "U+09EE", "U+09EF">>,
       << "U+0A66", "U+0A67", "U+0A68", "U+0A69", "U+0A6A", "U+0A6B",
         "U+0A6C", "U+0A6D", "U+0A6E", "U+0A6F">>,
       << "U+0AE6", "U+0AE7", "U+0AE8", "U+0AE9", "U+0AEA", "U+0AEB",
         "U+0AEC", "U+0AED", "U+0AEE", "U+0AEF">>,
       << "U+0B66", "U+0B67", "U+0B68", "U+0B69", "U+0B6A", "U+0B6B",
         "U+0B6C", "U+0B6D", "U+0B6E", "U+0B6F">>,
       << "U+0BE6", "U+0BE7", "U+0BE8", "U+0BE9", "U+0BEA", "U+0BEB",
         "U+0BEC", "U+0BED", "U+0BEE", "U+0BEF">>,
       << "U+0C66", "U+0C67", "U+0C68", "U+0C69", "U+0C6A", "U+0C6B",
         "U+0C6C", "U+0C6D", "U+0C6E", "U+0C6F">>,
       << "U+0CE6", "U+0CE7", "U+0CE8", "U+0CE9", "U+0CEA", "U+0CEB",
         "U+0CEC", "U+0CED", "U+0CEE", "U+0CEF">>,
       << "U+0D66", "U+0D67", "U+0D68", "U+0D69", "U+0D6A", "U+0D6B",
         "U+0D6C", "U+0D6D", "U+0D6E", "U+0D6F">>,
       << "U+0DE6", "U+0DE7", "U+0DE8", "U+0DE9", "U+0DEA", "U+0DEB",
         "U+0DEC", "U+0DED", "U+0DEE", "U+0DEF">>,
       << "U+0E50", "U+0E51", "U+0E52", "U+0E53", "U+0E54", "U+0E55",
         "U+0E56", "U+0E57", "U+0E58", "U+0E59">>,
       << "U+0ED0", "U+0ED1", "U+0ED2", "U+0ED3", "U+0ED4", "U+0ED5",
         "U+0ED6", "U+0ED7", "U+0ED8", "U+0ED9">>,
       << "U+0F20", "U+0F21", "U+0F22", "U+0F23", "U+0F24", "U+0F25",
         "U+0F26", "U+0F27", "U+0F28", "U+0F29">>,
       << "U+1040", "U+1041", "U+1042", "U+1043", "U+1044", "U+1045",
         "U+1046", "U+1047", "U+1048", "U+1049">>,
       << "U+1090", "U+1091", "U+1092", "U+1093", "U+1094", "U+1095",
         "U+1096", "U+1097", "U+1098", "U+1099">>,
       << "U+17E0", "U+17E1", "U+17E2", "U+17E3", "U+17E4", "U+17E5",
         "U+17E6", "U+17E7", "U+17E8", "U+17E9">>,
       << "U+1810", "U+1811", "U+1812", "U+1813", "U+1814", "U+1815",
         "U+1816", "U+1817", "U+1818", "U+1819">>,
       << "U+1946", "U+1947", "U+1948", "U+1949", "U+194A", "U+194B",
         "U+194C", "U+194D", "U+194E", "U+194F">>,
       << "U+19D0", "U+19D1", "U+19D2", "U+19D3", "U+19D4", "U+19D5",
         "U+19D6", "U+19D7", "U+19D8", "U+19D9">>,
       << "U+1A80", "U+1A81", "U+1A82", "U+1A83", "U+1A84", "U+1A85",
         "U+1A86", "U+1A87", "U+1A88", "U+1A89">>,
       << "U+1A90", "U+1A91", "U+1A92", "U+1A93", "U+1A94", "U+1A95",
         "U+1A96", "U+1A97", "U+1A98", "U+1A99">>,
       << "U+1B50", "U+1B51", "U+1B52", "U+1B53", "U+1B54", "U+1B55",
         "U+1B56", "U+1B57", "U+1B58", "U+1B59">>,
       << "U+1BB0", "U+1BB1", "U+1BB2", "U+1BB3", "U+1BB4", "U+1BB5",
         "U+1BB6", "U+1BB7", "U+1BB8", "U+1BB9">>,
       << "U+1C40", "U+1C41", "U+1C42", "U+1C43", "U+1C44", "U+1C45",
         "U+1C46", "U+1C47", "U+1C48", "U+1C49">>,
       << "U+1C50", "U+1C51", "U+1C52", "U+1C53", "U+1C54", "U+1C55",
         "U+1C56", "U+1C57", "U+1C58", "U+1C59">>,
       << "U+A620", "U+A621", "U+A622", "U+A623", "U+A624", "U+A625",
         "U+A626", "U+A627", "U+A628", "U+A629">>,
       << "U+A8D0", "U+A8D1", "U+A8D2", "U+A8D3", "U+A8D4", "U+A8D5",
         "U+A8D6", "U+A8D7", "U+A8D8", "U+A8D9">>,
       << "U+A900", "U+A901", "U+A902", "U+A903", "U+A904", "U+A905",
         "U+A906", "U+A907", "U+A908", "U+A909">>,
       << "U+A9D0", "U+A9D1", "U+A9D2", "U+A9D3", "U+A9D4", "U+A9D5",
         "U+A9D6", "U+A9D7", "U+A9D8", "U+A9D9">>,
       << "U+A9F0", "U+A9F1", "U+A9F2", "U+A9F3", "U+A9F4", "U+A9F5",
         "U+A9F6", "U+A9F7", "U+A9F8", "U+A9F9">>,
       << "U+AA50", "U+AA51", "U+AA52", "U+AA53", "U+AA54", "U+AA55",
         "U+AA56", "U+AA57", "U+AA58", "U+AA59">>,
       << "U+ABF0", "U+ABF1", "U+ABF2", "U+ABF3", "U+ABF4", "U+ABF5",
         "U+ABF6", "U+ABF7", "U+ABF8", "U+ABF9">>,
       << "U+FF10", "U+FF11", "U+FF12", "U+FF13", "U+FF14", "U+FF15",
         "U+FF16", "U+FF17", "U+FF18", "U+FF19">>,
       << "U+104A0", "U+104A1", "U+104A2", "U+104A3", "U+104A4", "U+104A5",
         "U+104A6", "U+104A7", "U+104A8", "U+104A9">>,
       << "U+10D30", "U+10D31", "U+10D32", "U+10D33", "U+10D34", "U+10D35",
         "U+10D36", "U+10D37", "U+10D38", "U+10D39">>,
       << "U+11066", "U+11067", "U+11068", "U+11069", "U+1106A", "U+1106B",
         "U+1106C", "U+1106D", "U+1106E", "U+1106F">>,
       << "U+110F0", "U+110F1", "U+110F2", "U+110F3", "U+110F4", "U+110F5",
         "U+110F6", "U+110F7", "U+110F8", "U+110F9">>,
       << "U+11136", "U+11137", "U+11138", "U+11139", "U+1113A", "U+1113B",
         "U+1113C", "U+1113D", "U+1113E", "U+1113F">>,
       << "U+111D0", "U+111D1", "U+111D2", "U+111D3", "U+111D4", "U+111D5",
         "U+111D6", "U+111D7", "U+111D8", "U+111D9">>,
       << "U+112F0", "U+112F1", "U+112F2", "U+112F3", "U+112F4", "U+112F5",
         "U+112F6", "U+112F7", "U+112F8", "U+112F9">>,
       << "U+11450", "U+11451", "U+11452", "U+11453", "U+11454", "U+11455",
         "U+11456", "U+11457", "U+11458", "U+11459">>,
       << "U+114D0", "U+114D1", "U+114D2", "U+114D3", "U+114D4", "U+114D5",
         "U+114D6", "U+114D7", "U+114D8", "U+114D9">>,
       << "U+11650", "U+11651", "U+11652", "U+11653", "U+11654", "U+11655",
         "U+11656", "U+11657", "U+11658", "U+11659">>,
       << "U+116C0", "U+116C1", "U+116C2", "U+116C3", "U+116C4", "U+116C5",
         "U+116C6", "U+116C7", "U+116C8", "U+116C9">>,
       << "U+11730", "U+11731", "U+11732", "U+11733", "U+11734", "U+11735",
         "U+11736", "U+11737", "U+11738", "U+11739">>,
       << "U+118E0", "U+118E1", "U+118E2", "U+118E3", "U+118E4", "U+118E5",
         "U+118E6", "U+118E7", "U+118E8", "U+118E9">>,
       << "U+11950", "U+11951", "U+11952", "U+11953", "U+11954", "U+11955",
         "U+11956", "U+11957", "U+11958", "U+11959">>,
       << "U+11C50", "U+11C51", "U+11C52", "U+11C53", "U+11C54", "U+11C55",
         "U+11C56", "U+11C57", "U+11C58", "U+11C59">>,
       << "U+11D50", "U+11D51", "U+11D52", "U+11D53", "U+11D54", "U+11D55",
         "U+11D56", "U+11D57", "U+11D58", "U+11D59">>,
       << "U+11DA0", "U+11DA1", "U+11DA2", "U+11DA3", "U+11DA4", "U+11DA5",
         "U+11DA6", "U+11DA7", "U+11DA8", "U+11DA9">>,
       << "U+16A60", "U+16A61", "U+16A62", "U+16A63", "U+16A64", "U+16A65",
         "U+16A66", "U+16A67", "U+16A68", "U+16A69">>,
       << "U+16AC0", "U+16AC1", "U+16AC2", "U+16AC3", "U+16AC4", "U+16AC5",
         "U+16AC6", "U+16AC7", "U+16AC8", "U+16AC9">>,
       << "U+16B50", "U+16B51", "U+16B52", "U+16B53", "U+16B54", "U+16B55",
         "U+16B56", "U+16B57", "U+16B58", "U+16B59">>,
       << "U+1D7CE", "U+1D7CF", "U+1D7D0", "U+1D7D1", "U+1D7D2", "U+1D7D3",
         "U+1D7D4", "U+1D7D5", "U+1D7D6", "U+1D7D7">>,
       << "U+1D7D8", "U+1D7D9", "U+1D7DA", "U+1D7DB", "U+1D7DC", "U+1D7DD",
         "U+1D7DE", "U+1D7DF", "U+1D7E0", "U+1D7E1">>,
       << "U+1D7E2", "U+1D7E3", "U+1D7E4", "U+1D7E5", "U+1D7E6", "U+1D7E7",
         "U+1D7E8", "U+1D7E9", "U+1D7EA", "U+1D7EB">>,
       << "U+1D7EC", "U+1D7ED", "U+1D7EE", "U+1D7EF", "U+1D7F0", "U+1D7F1",
         "U+1D7F2", "U+1D7F3", "U+1D7F4", "U+1D7F5">>,
       << "U+1D7F6", "U+1D7F7", "U+1D7F8", "U+1D7F9", "U+1D7FA", "U+1D7FB",
         "U+1D7FC", "U+1D7FD", "U+1D7FE", "U+1D7FF">>,
       << "U+1E140", "U+1E141", "U+1E142", "U+1E143", "U+1E144", "U+1E145",
         "U+1E146", "U+1E147", "U+1E148", "U+1E149">>,
       << "U+1E2F0", "U+1E2F1", "U+1E2F2", "U+1E2F3", "U+1E2F4", "U+1E2F5",
         "U+1E2F6", "U+1E2F7", "U+1E2F8", "U+1E2F9">>,
       << "U+1E950", "U+1E951", "U+1E952", "U+1E953", "U+1E954", "U+1E955",
         "U+1E956", "U+1E957", "U+1E958", "U+1E959">>,
       << "U+1FBF0", "U+1FBF1", "U+1FBF2", "U+1FBF3", "U+1FBF4", "U+1FBF5",
         "U+1FBF6", "U+1FBF7", "U+1FBF8", "U+1FBF9">> >>

DecimalDigit ==
    {DecimalDigits[b][i] : b \in DOMAIN DecimalDigits, i \in 1..10}

IsDigit(c) == c \in DecimalDigit

\* the value int() and float() give a decimal digit
DecimalValue ==
    [c \in DecimalDigit |->
        (CHOOSE i \in 1..10 :
            \E b \in DOMAIN DecimalDigits : DecimalDigits[b][i] = c) - 1]

DigitVal(c) == DecimalValue[c]

LowerCase == {"a", "b", "c", "d", "e", "f", "g", "h", "i", "j", "k", "l", "m",
              "n", "o", "p", "q", "r", "s", "t", "u", "v", "w", "x", "y", "z"}

UpperCase == {"A", "B", "C", "D", "E", "F", "G", "H", "I", "J", "K", "L", "M",
              "N", "O", "P", "Q", "R", "S", "T", "U", "V", "W", "X", "Y", "Z"}

\* the characters of str.isspace(): what \s matches in a str pattern, what
\* str.strip() strips and what the blank of a strptime format takes
WhiteSpace ==
    { "\t", "\n", "U+000B", "\f", "\r", "U+001C", "U+001D",
      "U+001E", "U+001F", " ", "U+0085", "U+00A0", "U+1680", "U+2000",
      "U+2001", "U+2002", "U+2003", "U+2004", "U+2005", "U+2006", "U+2007",
      "U+2008", "U+2009", "U+200A", "U+2028", "U+2029", "U+202F", "U+205F",
      "U+3000" }

UMinus == "U+2212"

RECURSIVE Flatten(_)
Flatten(seqs) ==
    IF seqs = <<>> THEN <<>> ELSE Head(seqs) \o Flatten(Tail(seqs))

\* unicodedata.normalize("NFKD", c) of every character c that it changes,
\* the Hangul syllables apart: the full compatibility decomposition
NFKDTable ==
    { <<"U+00A0", <<" ">>>>, <<"U+00A8", <<" ", "U+0308">>>>,
      <<"U+00AA", <<"a">>>>, <<"U+00AF", <<" ", "U+0304">>>>,
      <<"U+00B2", <<"2">>>>, <<"U+00B3", <<"3">>>>,
      <<"U+00B4", <<" ", "U+0301">>>>, <<"U+00B5", <<"U+03BC">>>>,
      <<"U+00B8", <<" ", "U+0327">>>>, <<"U+00B9", <<"1">>>>,
      <<"U+00BA", <<"o">>>>, <<"U+00BC", <<"1", "U+2044", "4">>>>,
      <<"U+00BD", <<"1", "U+2044", "2">>>>,
      <<"U+00BE", <<"3", "U+2044", "4">>>>, <<"U+00C0", <<"A", "U+0300">>>>,
      <<"U+00C1", <<"A", "U+0301">>>>, <<"U+00C2", <<"A", "U+0302">>>>,
      <<"U+00C3", <<"A", "U+0303">>>>, <<"U+00C4", <<"A", "U+0308">>>>,
      <<"U+00C5", <<"A", "U+030A">>>>, <<"U+00C7", <<"C", "U+0327">>>>,
      <<"U+00C8", <<"E", "U+0300">>>>, <<"U+00C9", <<"E", "U+0301">>>>,
      <<"U+00CA", <<"E", "U+0302">>>>, <<"U+00CB", <<"E", "U+0308">>>>,
      <<"U+00CC", <<"I", "U+0300">>>>, <<"U+00CD", <<"I", "U+0301">>>>,
      <<"U+00CE", <<"I", "U+0302">>>>, <<"U+00CF", <<"I", "U+0308">>>>,
      <<"U+00D1", <<"N", "U+0303">>>>, <<"U+00D2", <<"O", "U+0300">>>>,
      <<"U+00D3", <<"O", "U+0301">>>>, <<"U+00D4", <<"O", "U+0302">>>>,
      <<"U+00D5", <<"O", "U+0303">>>>, <<"U+00D6", <<"O", "U+0308">>>>,
      <<"U+00D9", <<"U", "U+0300">>>>, <<"U+00DA", <<"U", "U+0301">>>>,
      <<"U+00DB", <<"U", "U+0302">>>>, <<"U+00DC", <<"U", "U+0308">>>>,
      <<"U+00DD", <<"Y", "U+0301">>>>, <<"U+00E0", <<"a", "U+0300">>>>,
      <<"U+00E1", <<"a", "U+0301">>>>, <<"U+00E2", <<"a", "U+0302">>>>,
      <<"U+00E3", <<"a", "U+0303">>>>, <<"U+00E4", <<"a", "U+0308">>>>,
      <<"U+00E5", <<"a", "U+030A">>>>, <<"U+00E7", <<"c", "U+0327">>>>,
      <<"U+00E8", <<"e", "U+0300">>>>, <<"U+00E9", <<"e", "U+0301">>>>,
      <<"U+00EA", <<"e", "U+0302">>>>, <<"U+00EB", <<"e", "U+0308">>>>,
      <<"U+00EC", <<"i", "U+0300">>>>, <<"U+00ED", <<"i", "U+0301">>>>,
      <<"U+00EE", <<"i", "U+0302">>>>, <<"U+00EF", <<"i", "U+0308">>>>,
      <<"U+00F1", <<"n", "U+0303">>>>, <<"U+00F2", <<"o", "U+0300">>>>,
      <<"U+00F3", <<"o", "U+0301">>>>, <<"U+00F4", <<"o", "U+0302">>>>,
      <<"U+00F5", <<"o", "U+0303">>>>, <<"U+00F6", <<"o", "U+0308">>>>,
      <<"U+00F9", <<"u", "U+0300">>>>, <<"U+00FA", <<"u", "U+0301">>>>,
      <<"U+00FB", <<"u", "U+0302">>>>, <<"U+00FC", <<"u", "U+0308">>>>,
      <<"U+00FD", <<"y", "U+0301">>>>, <<"U+00FF", <<"y", "U+0308">>>>,
      <<"U+0100", <<"A", "U+0304">>>>, <<"U+0101", <<"a", "U+0304">>>>,
      <<"U+0102", <<"A", "U+0306">>>>, <<"U+0103", <<"a", "U+0306">>>>,
      <<"U+0104", <<"A", "U+0328">>>>, <<"U+0105", <<"a", "U+0328">>>>,
      <<"U+0106", <<"C", "U+0301">>>>, <<"U+0107", <<"c", "U+0301">>>>,
      <<"U+0108", <<"C", "U+0302">>>>, <<"U+0109", <<"c", "U+0302">>>>,
      <<"U+010A", <<"C", "U+0307">>>>, <<"U+010B", <<"c", "U+0307">>>>,
      <<"U+010C", <<"C", "U+030C">>>>, <<"U+010D", <<"c", "U+030C">>>>,
      <<"U+010E", <<"D", "U+030C">>>>, <<"U+010F", <<"d", "U+030C">>>>,
      <<"U+0112", <<"E", "U+0304">>>>, <<"U+0113", <<"e", "U+0304">>>>,
      <<"U+0114", <<"E", "U+0306">>>>, <<"U+0115", <<"e", "U+0306">>>>,
      <<"U+0116", <<"E", "U+0307">>>>, <<"U+0117", <<"e", "U+0307">>>>,
      <<"U+0118", <<"E", "U+0328">>>>, <<"U+0119", <<"e", "U+0328">>>>,
      <<"U+011A", <<"E", "U+030C">>>>, <<"U+011B", <<"e", "U+030C">>>>,
      <<"U+011C", <<"G", "U+0302">>>>, <<"U+011D", <<"g", "U+0302">>>>,
      <<"U+011E", <<"G", "U+0306">>>>, <<"U+011F", <<"g", "U+0306">>>>,
      <<"U+0120", <<"G", "U+0307">>>>, <<"U+0121", <<"g", "U+0307">>>>,
      <<"U+0122", <<"G", "U+0327">>>>, <<"U+0123", <<"g", "U+0327">>>>,
      <<"U+0124", <<"H", "U+0302">>>>, <<"U+0125", <<"h", "U+0302">>>>,
      <<"U+0128", <<"I", "U+0303">>>>, <<"U+0129", <<"i", "U+0303">>>>,
      <<"U+012A", <<"I", "U+0304">>>>, <<"U+012B", <<"i", "U+0304">>>>,
      <<"U+012C", <<"I", "U+0306">>>>, <<"U+012D", <<"i", "U+0306">>>>,
      <<"U+012E", <<"I", "U+0328">>>>, <<"U+012F", <<"i", "U+0328">>>>,
      <<"U+0130", <<"I", "U+0307">>>>, <<"U+0132", <<"I", "J">>>>,
      <<"U+0133", <<"i", "j">>>>, <<"U+0134", <<"J", "U+0302">>>>,
      <<"U+0135", <<"j", "U+0302">>>>, <<"U+0136", <<"K", "U+0327">>>>,
      <<"U+0137", <<"k", "U+0327">>>>, <<"U+0139", <<"L", "U+0301">>>>,
      <<"U+013A", <<"l", "U+0301">>>>, <<"U+013B", <<"L", "U+0327">>>>,
      <<"U+013C", <<"l", "U+0327">>>>, <<"U+013D", <<"L", "U+030C">>>>,
      <<"U+013E", <<"l", "U+030C">>>>, <<"U+013F", <<"L", "U+00B7">>>>,
      <<"U+0140", <<"l", "U+00B7">>>>, <<"U+0143", <<"N", "U+0301">>>>,
      <<"U+0144", <<"n", "U+0301">>>>, <<"U+0145", <<"N", "U+0327">>>>,
      <<"U+0146", <<"n", "U+0327">>>>, <<"U+0147", <<"N", "U+030C">>>>,
      <<"U+0148", <<"n", "U+030C">>>>, <<"U+0149", <<"U+02BC", "n">>>>,
      <<"U+014C", <<"O", "U+0304">>>>, <<"U+014D", <<"o", "U+0304">>>>,
      <<"U+014E", <<"O", "U+0306">>>>, <<"U+014F", <<"o", "U+0306">>>>,
      <<"U+0150", <<"O", "U+030B">>>>, <<"U+0151", <<"o", "U+030B">>>>,
      <<"U+0154", <<"R", "U+0301">>>>, <<"U+0155", <<"r", "U+0301">>>>,
      <<"U+0156", <<"R", "U+0327">>>>, <<"U+0157", <<"r", "U+0327">>>>,
      <<"U+0158", <<"R", "U+030C">>>>, <<"U+0159", <<"r", "U+030C">>>>,
      <<"U+015A", <<"S", "U+0301">>>>, <<"U+015B", <<"s", "U+0301">>>>,
      <<"U+015C", <<"S", "U+0302">>>>, <<"U+015D", <<"s", "U+0302">>>>,
      <<"U+015E", <<"S", "U+0327">>>>, <<"U+015F", <<"s", "U+0327">>>>,
      <<"U+0160", <<"S", "U+030C">>>>, <<"U+0161", <<"s", "U+030C">>>>,
      <<"U+0162", <<"T", "U+0327">>>>, <<"U+0163", <<"t", "U+0327">>>>,
      <<"U+0164", <<"T", "U+030C">>>>, <<"U+0165", <<"t", "U+030C">>>>,
      <<"U+0168", <<"U", "U+0303">>>>, <<"U+0169", <<"u", "U+0303">>>>,
      <<"U+016A", <<"U", "U+0304">>>>, <<"U+016B", <<"u", "U+0304">>>>,
      <<"U+016C", <<"U", "U+0306">>>>, <<"U+016D", <<"u", "U+0306">>>>,
      <<"U+016E", <<"U", "U+030A">>>>, <<"U+016F", <<"u", "U+030A">>>>,
      <<"U+0170", <<"U", "U+030B">>>>, <<"U+0171", <<"u", "U+030B">>>>,
      <<"U+0172", <<"U", "U+0328">>>>, <<"U+0173", <<"u", "U+0328">>>>,
      <<"U+0174", <<"W", "U+0302">>>>, <<"U+0175", <<"w", "U+0302">>>>,
      <<"U+0176", <<"Y", "U+0302">>>>, <<"U+0177", <<"y", "U+0302">>>>,
      <<"U+0178", <<"Y", "U+0308">>>>, <<"U+0179", <<"Z", "U+0301">>>>,
      <<"U+017A", <<"z", "U+0301">>>>, <<"U+017B", <<"Z", "U+0307">>>>,
      <<"U+017C", <<"z", "U+0307">>>>, <<"U+017D", <<"Z", "U+030C">>>>,
      <<"U+017E", <<"z", "U+030C">>>>, <<"U+017F", <<"s">>>>,
      <<"U+01A0", <<"O", "U+031B">>>>, <<"U+01A1", <<"o", "U+031B">>>>,
      <<"U+01AF", <<"U", "U+031B">>>>, <<"U+01B0", <<"u", "U+031B">>>>,
      <<"U+01C4", <<"D", "Z", "U+030C">>>>,
      <<"U+01C5", <<"D", "z", "U+030C">>>>,
      <<"U+01C6", <<"d", "z", "U+030C">>>>, <<"U+01C7", <<"L", "J">>>>,
      <<"U+01C8", <<"L", "j">>>>, <<"U+01C9", <<"l", "j">>>>,
      <<"U+01CA", <<"N", "J">>>>, <<"U+01CB", <<"N", "j">>>>,
      <<"U+01CC", <<"n", "j">>>>, <<"U+01CD", <<"A", "U+030C">>>>,
      <<"U+01CE", <<"a", "U+030C">>>>, <<"U+01CF", <<"I", "U+030C">>>>,
      <<"U+01D0", <<"i", "U+030C">>>>, <<"U+01D1", <<"O", "U+030C">>>>,
      <<"U+01D2", <<"o", "U+030C">>>>, <<"U+01D3", <<"U", "U+030C">>>>,
      <<"U+01D4", <<"u", "U+030C">>>>,
      <<"U+01D5", <<"U", "U+0308", "U+0304">>>>,
      <<"U+01D6", <<"u", "U+0308", "U+0304">>>>,
      <<"U+01D7", <<"U", "U+0308", "U+0301">>>>,
      <<"U+01D8", <<"u", "U+0308", "U+0301">>>>,
      <<"U+01D9", <<"U", "U+0308", "U+030C">>>>,
      <<"U+01DA", <<"u", "U+0308", "U+030C">>>>,
      <<"U+01DB", <<"U", "U+0308", "U+0300">>>>,
      <<"U+01DC", <<"u", "U+0308", "U+0300">>>>,
      <<"U+01DE", <<"A", "U+0308", "U+0304">>>>,
      <<"U+01DF", <<"a", "U+0308", "U+0304">>>>,
      <<"U+01E0", <<"A", "U+0307", "U+0304">>>>,
      <<"U+01E1", <<"a", "U+0307", "U+0304">>>>,
      <<"U+01E2", <<"U+00C6", "U+0304">>>>,
      <<"U+01E3", <<"U+00E6", "U+0304">>>>, <<"U+01E6", <<"G", "U+030C">>>>,
      <<"U+01E7", <<"g", "U+030C">>>>, <<"U+01E8", <<"K", "U+030C">>>>,
      <<"U+01E9", <<"k", "U+030C">>>>, <<"U+01EA", <<"O", "U+0328">>>>,
      <<"U+01EB", <<"o", "U+0328">>>>,
      <<"U+01EC", <<"O", "U+0328", "U+0304">>>>,
      <<"U+01ED", <<"o", "U+0328", "U+0304">>>>,
      <<"U+01EE", <<"U+01B7", "U+030C">>>>,
      <<"U+01EF", <<"U+0292", "U+030C">>>>, <<"U+01F0", <<"j", "U+030C">>>>,
      <<"U+01F1", <<"D", "Z">>>>, <<"U+01F2", <<"D", "z">>>>,
      <<"U+01F3", <<"d", "z">>>>, <<"U+01F4", <<"G", "U+0301">>>>,
      <<"U+01F5", <<"g", "U+0301">>>>, <<"U+01F8", <<"N", "U+0300">>>>,
      <<"U+01F9", <<"n", "U+0300">>>>,
      <<"U+01FA", <<"A", "U+030A", "U+0301">>>>,
      <<"U+01FB", <<"a", "U+030A", "U+0301">>>>,
      <<"U+01FC", <<"U+00C6", "U+0301">>>>,
      <<"U+01FD", <<"U+00E6", "U+0301">>>>,
      <<"U+01FE", <<"U+00D8", "U+0301">>>>,
      <<"U+01FF", <<"U+00F8", "U+0301">>>>, <<"U+0200", <<"A", "U+030F">>>>,
      <<"U+0201", <<"a", "U+030F">>>>, <<"U+0202", <<"A", "U+0311">>>>,
      <<"U+0203", <<"a", "U+0311">>>>, <<"U+0204", <<"E", "U+030F">>>>,
      <<"U+0205", <<"e", "U+030F">>>>, <<"U+0206", <<"E", "U+0311">>>>,
      <<"U+0207", <<"e", "U+0311">>>>, <<"U+0208", <<"I", "U+030F">>>>,
      <<"U+0209", <<"i", "U+030F">>>>, <<"U+020A", <<"I", "U+0311">>>>,
      <<"U+020B", <<"i", "U+0311">>>>, <<"U+020C", <<"O", "U+030F">>>>,
      <<"U+020D", <<"o", "U+030F">>>>, <<"U+020E", <<"O", "U+0311">>>>,
      <<"U+020F", <<"o", "U+0311">>>>, <<"U+0210", <<"R", "U+030F">>>>,
      <<"U+0211", <<"r", "U+030F">>>>, <<"U+0212", <<"R", "U+0311">>>>,
      <<"U+0213", <<"r", "U+0311">>>>, <<"U+0214", <<"U", "U+030F">>>>,
      <<"U+0215", <<"u", "U+030F">>>>, <<"U+0216", <<"U", "U+0311">>>>,
      <<"U+0217", <<"u", "U+0311">>>>, <<"U+0218", <<"S", "U+0326">>>>,
      <<"U+0219", <<"s", "U+0326">>>>, <<"U+021A", <<"T", "U+0326">>>>,
      <<"U+021B", <<"t", "U+0326">>>>, <<"U+021E", <<"H", "U+030C">>>>,
      <<"U+021F", <<"h", "U+030C">>>>, <<"U+0226", <<"A", "U+0307">>>>,
      <<"U+0227", <<"a", "U+0307">>>>, <<"U+0228", <<"E", "U+0327">>>>,
      <<"U+0229", <<"e", "U+0327">>>>,
      <<"U+022A", <<"O", "U+0308", "U+0304">>>>,
      <<"U+022B", <<"o", "U+0308", "U+0304">>>>,
      <<"U+022C", <<"O", "U+0303", "U+0304">>>>,
      <<"U+022D", <<"o", "U+0303", "U+0304">>>>,
      <<"U+022E", <<"O", "U+0307">>>>, <<"U+022F", <<"o", "U+0307">>>>,
      <<"U+0230", <<"O", "U+0307", "U+0304">>>>,
      <<"U+0231", <<"o", "U+0307", "U+0304">>>>,
      <<"U+0232", <<"Y", "U+0304">>>>, <<"U+0233", <<"y", "U+0304">>>>,
      <<"U+02B0", <<"h">>>>, <<"U+02B1", <<"U+0266">>>>,
      <<"U+02B2", <<"j">>>>, <<"U+02B3", <<"r">>>>,
      <<"U+02B4", <<"U+0279">>>>, <<"U+02B5", <<"U+027B">>>>,
      <<"U+02B6", <<"U+0281">>>>, <<"U+02B7", <<"w">>>>,
      <<"U+02B8", <<"y">>>>, <<"U+02D8", <<" ", "U+0306">>>>,
      <<"U+02D9", <<" ", "U+0307">>>>, <<"U+02DA", <<" ", "U+030A">>>>,
      <<"U+02DB", <<" ", "U+0328">>>>, <<"U+02DC", <<" ", "U+0303">>>>,
      <<"U+02DD", <<" ", "U+030B">>>>, <<"U+02E0", <<"U+0263">>>>,
      <<"U+02E1", <<"l">>>>, <<"U+02E2", <<"s">>>>, <<"U+02E3", <<"x">>>>,
      <<"U+02E4", <<"U+0295">>>>, <<"U+0340", <<"U+0300">>>>,
      <<"U+0341", <<"U+0301">>>>, <<"U+0343", <<"U+0313">>>>,
      <<"U+0344", <<"U+0308", "U+0301">>>>, <<"U+0374", <<"U+02B9">>>>,
      <<"U+037A", <<" ", "U+0345">>>>, <<"U+037E", <<";">>>>,
      <<"U+0384", <<" ", "U+0301">>>>,
      <<"U+0385", <<" ", "U+0308", "U+0301">>>>,
      <<"U+0386", <<"U+0391", "U+0301">>>>, <<"U+0387", <<"U+00B7">>>>,
      <<"U+0388", <<"U+0395", "U+0301">>>>,
      <<"U+0389", <<"U+0397", "U+0301">>>>,
      <<"U+038A", <<"U+0399", "U+0301">>>>,
      <<"U+038C", <<"U+039F", "U+0301">>>>,
      <<"U+038E", <<"U+03A5", "U+0301">>>>,
      <<"U+038F", <<"U+03A9", "U+0301">>>>,
      <<"U+0390", <<"U+03B9", "U+0308", "U+0301">>>>,
      <<"U+03AA", <<"U+0399", "U+0308">>>>,
      <<"U+03AB", <<"U+03A5", "U+0308">>>>,
      <<"U+03AC", <<"U+03B1", "U+0301">>>>,
      <<"U+03AD", <<"U+03B5", "U+0301">>>>,
      <<"U+03AE", <<"U+03B7", "U+0301">>>>,
      <<"U+03AF", <<"U+03B9", "U+0301">>>>,
      <<"U+03B0", <<"U+03C5", "U+0308", "U+0301">>>>,
      <<"U+03CA", <<"U+03B9", "U+0308">>>>,
      <<"U+03CB", <<"U+03C5", "U+0308">>>>,
      <<"U+03CC", <<"U+03BF", "U+0301">>>>,
      <<"U+03CD", <<"U+03C5", "U+0301">>>>,
      <<"U+03CE", <<"U+03C9", "U+0301">>>>, <<"U+03D0", <<"U+03B2">>>>,
      <<"U+03D1", <<"U+03B8">>>>, <<"U+03D2", <<"U+03A5">>>>,
      <<"U+03D3", <<"U+03A5", "U+0301">>>>,
      <<"U+03D4", <<"U+03A5", "U+0308">>>>, <<"U+03D5", <<"U+03C6">>>>,
      <<"U+03D6", <<"U+03C0">>>>, <<"U+03F0", <<"U+03BA">>>>,
      <<"U+03F1", <<"U+03C1">>>>, <<"U+03F2", <<"U+03C2">>>>,
      <<"U+03F4", <<"U+0398">>>>, <<"U+03F5", <<"U+03B5">>>>,
      <<"U+03F9", <<"U+03A3">>>>, <<"U+0400", <<"U+0415", "U+0300">>>>,
      <<"U+0401", <<"U+0415", "U+0308">>>>,
      <<"U+0403", <<"U+0413", "U+0301">>>>,
      <<"U+0407", <<"U+0406", "U+0308">>>>,
      <<"U+040C", <<"U+041A", "U+0301">>>>,
      <<"U+040D", <<"U+0418", "U+0300">>>>,
      <<"U+040E", <<"U+0423", "U+0306">>>>,
      <<"U+0419", <<"U+0418", "U+0306">>>>,
      <<"U+0439", <<"U+0438", "U+0306">>>>,
      <<"U+0450", <<"U+0435", "U+0300">>>>,
      <<"U+0451", <<"U+0435", "U+0308">>>>,
      <<"U+0453", <<"U+0433", "U+0301">>>>,
      <<"U+0457", <<"U+0456", "U+0308">>>>,
      <<"U+045C", <<"U+043A", "U+0301">>>>,
      <<"U+045D", <<"U+0438", "U+0300">>>>,
      <<"U+045E", <<"U+0443", "U+0306">>>>,
      <<"U+0476", <<"U+0474", "U+030F">>>>,
      <<"U+0477", <<"U+0475", "U+030F">>>>,
      <<"U+04C1", <<"U+0416", "U+0306">>>>,
      <<"U+04C2", <<"U+0436", "U+0306">>>>,
      <<"U+04D0", <<"U+0410", "U+0306">>>>,
      <<"U+04D1", <<"U+0430", "U+0306">>>>,
      <<"U+04D2", <<"U+0410", "U+0308">>>>,
      <<"U+04D3", <<"U+0430", "U+0308">>>>,
      <<"U+04D6", <<"U+0415", "U+0306">>>>,
      <<"U+04D7", <<"U+0435", "U+0306">>>>,
      <<"U+04DA", <<"U+04D8", "U+0308">>>>,
      <<"U+04DB", <<"U+04D9", "U+0308">>>>,
      <<"U+04DC", <<"U+0416", "U+0308">>>>,
      <<"U+04DD", <<"U+0436", "U+0308">>>>,
      <<"U+04DE", <<"U+0417", "U+0308">>>>,
      <<"U+04DF", <<"U+0437", "U+0308">>>>,
      <<"U+04E2", <<"U+0418", "U+0304">>>>,
      <<"U+04E3", <<"U+0438", "U+0304">>>>,
      <<"U+04E4", <<"U+0418", "U+0308">>>>,
      <<"U+04E5", <<"U+0438", "U+0308">>>>,
      <<"U+04E6", <<"U+041E", "U+0308">>>>,
      <<"U+04E7", <<"U+043E", "U+0308">>>>,
      <<"U+04EA", <<"U+04E8", "U+0308">>>>,
      <<"U+04EB", <<"U+04E9", "U+0308">>>>,
      <<"U+04EC", <<"U+042D", "U+0308">>>>,
      <<"U+04ED", <<"U+044D", "U+0308">>>>,
      <<"U+04EE", <<"U+0423", "U+0304">>>>,
      <<"U+04EF", <<"U+0443", "U+0304">>>>,
      <<"U+04F0", <<"U+0423", "U+0308">>>>,
      <<"U+04F1", <<"U+0443", "U+0308">>>>,
      <<"U+04F2", <<"U+0423", "U+030B">>>>,
      <<"U+04F3", <<"U+0443", "U+030B">>>>,
      <<"U+04F4", <<"U+0427", "U+0308">>>>,
      <<"U+04F5", <<"U+0447", "U+0308">>>>,
      <<"U+04F8", <<"U+042B", "U+0308">>>>,
      <<"U+04F9", <<"U+044B", "U+0308">>>>,
      <<"U+0587", <<"U+0565", "U+0582">>>>,
      <<"U+0622", <<"U+0627", "U+0653">>>>,
      <<"U+0623", <<"U+0627", "U+0654">>>>,
      <<"U+0624", <<"U+0648", "U+0654">>>>,
      <<"U+0625", <<"U+0627", "U+0655">>>>,
      <<"U+0626", <<"U+064A", "U+0654">>>>,
      <<"U+0675", <<"U+0627", "U+0674">>>>,
      <<"U+0676", <<"U+0648", "U+0674">>>>,
      <<"U+0677", <<"U+06C7", "U+0674">>>>,
      <<"U+0678", <<"U+064A", "U+0674">>>>,
      <<"U+06C0", <<"U+06D5", "U+0654">>>>,
      <<"U+06C2", <<"U+06C1", "U+0654">>>>,
      <<"U+06D3", <<"U+06D2", "U+0654">>>>,
      <<"U+0929", <<"U+0928", "U+093C">>>>,
      <<"U+0931", <<"U+0930", "U+093C">>>>,
      <<"U+0934", <<"U+0933", "U+093C">>>>,
      <<"U+0958", <<"U+0915", "U+093C">>>>,
      <<"U+0959", <<"U+0916", "U+093C">>>>,
      <<"U+095A", <<"U+0917", "U+093C">>>>,
      <<"U+095B", <<"U+091C", "U+093C">>>>,
      <<"U+095C", <<"U+0921", "U+093C">>>>,
      <<"U+095D", <<"U+0922", "U+093C">>>>,
      <<"U+095E", <<"U+092B", "U+093C">>>>,
      <<"U+095F", <<"U+092F", "U+093C">>>>,
      <<"U+09CB", <<"U+09C7", "U+09BE">>>>,
      <<"U+09CC", <<"U+09C7", "U+09D7">>>>,
      <<"U+09DC", <<"U+09A1", "U+09BC">>>>,
      <<"U+09DD", <<"U+09A2", "U+09BC">>>>,
      <<"U+09DF", <<"U+09AF", "U+09BC">>>>,
      <<"U+0A33", <<"U+0A32", "U+0A3C">>>>,
      <<"U+0A36", <<"U+0A38", "U+0A3C">>>>,
      <<"U+0A59", <<"U+0A16", "U+0A3C">>>>,
      <<"U+0A5A", <<"U+0A17", "U+0A3C">>>>,
      <<"U+0A5B", <<"U+0A1C", "U+0A3C">>>>,
      <<"U+0A5E", <<"U+0A2B", "U+0A3C">>>>,
      <<"U+0B48", <<"U+0B47", "U+0B56">>>>,
      <<"U+0B4B", <<"U+0B47", "U+0B3E">>>>,
      <<"U+0B4C", <<"U+0B47", "U+0B57">>>>,
      <<"U+0B5C", <<"U+0B21", "U+0B3C">>>>,
      <<"U+0B5D", <<"U+0B22", "U+0B3C">>>>,
      <<"U+0B94", <<"U+0B92", "U+0BD7">>>>,
      <<"U+0BCA", <<"U+0BC6", "U+0BBE">>>>,
      <<"U+0BCB", <<"U+0BC7", "U+0BBE">>>>,
      <<"U+0BCC", <<"U+0BC6", "U+0BD7">>>>,
      <<"U+0C48", <<"U+0C46", "U+0C56">>>>,
      <<"U+0CC0", <<"U+0CBF", "U+0CD5">>>>,
      <<"U+0CC7", <<"U+0CC6", "U+0CD5">>>>,
      <<"U+0CC8", <<"U+0CC6", "U+0CD6">>>>,
      <<"U+0CCA", <<"U+0CC6", "U+0CC2">>>>,
      <<"U+0CCB", <<"U+0CC6", "U+0CC2", "U+0CD5">>>>,
      <<"U+0D4A", <<"U+0D46", "U+0D3E">>>>,
      <<"U+0D4B", <<"U+0D47", "U+0D3E">>>>,
      <<"U+0D4C", <<"U+0D46", "U+0D57">>>>,
      <<"U+0DDA", <<"U+0DD9", "U+0DCA">>>>,
      <<"U+0DDC", <<"U+0DD9", "U+0DCF">>>>,
      <<"U+0DDD", <<"U+0DD9", "U+0DCF", "U+0DCA">>>>,
      <<"U+0DDE", <<"U+0DD9", "U+0DDF">>>>,
      <<"U+0E33", <<"U+0E4D", "U+0E32">>>>,
      <<"U+0EB3", <<"U+0ECD", "U+0EB2">>>>,
      <<"U+0EDC", <<"U+0EAB", "U+0E99">>>>,
      <<"U+0EDD", <<"U+0EAB", "U+0EA1">>>>, <<"U+0F0C", <<"U+0F0B">>>>,
      <<"U+0F43", <<"U+0F42", "U+0FB7">>>>,
      <<"U+0F4D", <<"U+0F4C", "U+0FB7">>>>,
      <<"U+0F52", <<"U+0F51", "U+0FB7">>>>,
      <<"U+0F57", <<"U+0F56", "U+0FB7">>>>,
      <<"U+0F5C", <<"U+0F5B", "U+0FB7">>>>,
      <<"U+0F69", <<"U+0F40", "U+0FB5">>>>,
      <<"U+0F73", <<"U+0F71", "U+0F72">>>>,
      <<"U+0F75", <<"U+0F71", "U+0F74">>>>,
      <<"U+0F76", <<"U+0FB2", "U+0F80">>>>,
      <<"U+0F77", <<"U+0FB2", "U+0F71", "U+0F80">>>>,
      <<"U+0F78", <<"U+0FB3", "U+0F80">>>>,
      <<"U+0F79", <<"U+0FB3", "U+0F71", "U+0F80">>>>,
      <<"U+0F81", <<"U+0F71", "U+0F80">>>>,
      <<"U+0F93", <<"U+0F92", "U+0FB7">>>>,
      <<"U+0F9D", <<"U+0F9C", "U+0FB7">>>>,
      <<"U+0FA2", <<"U+0FA1", "U+0FB7">>>>,
      <<"U+0FA7", <<"U+0FA6", "U+0FB7">>>>,
      <<"U+0FAC", <<"U+0FAB", "U+0FB7">>>>,
      <<"U+0FB9", <<"U+0F90", "U+0FB5">>>>,
      <<"U+1026", <<"U+1025", "U+102E">>>>, <<"U+10FC", <<"U+10DC">>>>,
      <<"U+1B06", <<"U+1B05", "U+1B35">>>>,
      <<"U+1B08", <<"U+1B07", "U+1B35">>>>,
      <<"U+1B0A", <<"U+1B09", "U+1B35">>>>,
      <<"U+1B0C", <<"U+1B0B", "U+1B35">>>>,
      <<"U+1B0E", <<"U+1B0D", "U+1B35">>>>,
      <<"U+1B12", <<"U+1B11", "U+1B35">>>>,
      <<"U+1B3B", <<"U+1B3A", "U+1B35">>>>,
      <<"U+1B3D", <<"U+1B3C", "U+1B35">>>>,
      <<"U+1B40", <<"U+1B3E", "U+1B35">>>>,
      <<"U+1B41", <<"U+1B3F", "U+1B35">>>>,
      <<"U+1B43", <<"U+1B42", "U+1B35">>>>, <<"U+1D2C", <<"A">>>>,
      <<"U+1D2D", <<"U+00C6">>>>, <<"U+1D2E", <<"B">>>>,
      <<"U+1D30", <<"D">>>>, <<"U+1D31", <<"E">>>>,
      <<"U+1D32", <<"U+018E">>>>, <<"U+1D33", <<"G">>>>,
      <<"U+1D34", <<"H">>>>, <<"U+1D35", <<"I">>>>, <<"U+1D36", <<"J">>>>,
      <<"U+1D37", <<"K">>>>, <<"U+1D38", <<"L">>>>, <<"U+1D39", <<"M">>>>,
      <<"U+1D3A", <<"N">>>>, <<"U+1D3C", <<"O">>>>,
      <<"U+1D3D", <<"U+0222">>>>, <<"U+1D3E", <<"P">>>>,
      <<"U+1D3F", <<"R">>>>, <<"U+1D40", <<"T">>>>, <<"U+1D41", <<"U">>>>,
      <<"U+1D42", <<"W">>>>, <<"U+1D43", <<"a">>>>,
      <<"U+1D44", <<"U+0250">>>>, <<"U+1D45", <<"U+0251">>>>,
      <<"U+1D46", <<"U+1D02">>>>, <<"U+1D47", <<"b">>>>,
      <<"U+1D48", <<"d">>>>, <<"U+1D49", <<"e">>>>,
      <<"U+1D4A", <<"U+0259">>>>, <<"U+1D4B", <<"U+025B">>>>,
      <<"U+1D4C", <<"U+025C">>>>, <<"U+1D4D", <<"g">>>>,
      <<"U+1D4F", <<"k">>>>, <<"U+1D50", <<"m">>>>,
      <<"U+1D51", <<"U+014B">>>>, <<"U+1D52", <<"o">>>>,
      <<"U+1D53", <<"U+0254">>>>, <<"U+1D54", <<"U+1D16">>>>,
      <<"U+1D55", <<"U+1D17">>>>, <<"U+1D56", <<"p">>>>,
      <<"U+1D57", <<"t">>>>, <<"U+1D58", <<"u">>>>,
      <<"U+1D59", <<"U+1D1D">>>>, <<"U+1D5A", <<"U+026F">>>>,
      <<"U+1D5B", <<"v">>>>, <<"U+1D5C", <<"U+1D25">>>>,
      <<"U+1D5D", <<"U+03B2">>>>, <<"U+1D5E", <<"U+03B3">>>>,
      <<"U+1D5F", <<"U+03B4">>>>, <<"U+1D60", <<"U+03C6">>>>,
      <<"U+1D61", <<"U+03C7">>>>, <<"U+1D62", <<"i">>>>,
      <<"U+1D63", <<"r">>>>, <<"U+1D64", <<"u">>>>, <<"U+1D65", <<"v">>>>,
      <<"U+1D66", <<"U+03B2">>>>, <<"U+1D67", <<"U+03B3">>>>,
      <<"U+1D68", <<"U+03C1">>>>, <<"U+1D69", <<"U+03C6">>>>,
      <<"U+1D6A", <<"U+03C7">>>>, <<"U+1D78", <<"U+043D">>>>,
      <<"U+1D9B", <<"U+0252">>>>, <<"U+1D9C", <<"c">>>>,
      <<"U+1D9D", <<"U+0255">>>>, <<"U+1D9E", <<"U+00F0">>>>,
      <<"U+1D9F", <<"U+025C">>>>, <<"U+1DA0", <<"f">>>>,
      <<"U+1DA1", <<"U+025F">>>>, <<"U+1DA2", <<"U+0261">>>>,
      <<"U+1DA3", <<"U+0265">>>>, <<"U+1DA4", <<"U+0268">>>>,
      <<"U+1DA5", <<"U+0269">>>>, <<"U+1DA6", <<"U+026A">>>>,
      <<"U+1DA7", <<"U+1D7B">>>>, <<"U+1DA8", <<"U+029D">>>>,
      <<"U+1DA9", <<"U+026D">>>>, <<"U+1DAA", <<"U+1D85">>>>,
      <<"U+1DAB", <<"U+029F">>>>, <<"U+1DAC", <<"U+0271">>>>,
      <<"U+1DAD", <<"U+0270">>>>, <<"U+1DAE", <<"U+0272">>>>,
      <<"U+1DAF", <<"U+0273">>>>, <<"U+1DB0", <<"U+0274">>>>,
      <<"U+1DB1", <<"U+0275">>>>, <<"U+1DB2", <<"U+0278">>>>,
      <<"U+1DB3", <<"U+0282">>>>, <<"U+1DB4", <<"U+0283">>>>,
      <<"U+1DB5", <<"U+01AB">>>>, <<"U+1DB6", <<"U+0289">>>>,
      <<"U+1DB7", <<"U+028A">>>>, <<"U+1DB8", <<"U+1D1C">>>>,
      <<"U+1DB9", <<"U+028B">>>>, <<"U+1DBA", <<"U+028C">>>>,
      <<"U+1DBB", <<"z">>>>, <<"U+1DBC", <<"U+0290">>>>,
      <<"U+1DBD", <<"U+0291">>>>, <<"U+1DBE", <<"U+0292">>>>,
      <<"U+1DBF", <<"U+03B8">>>>, <<"U+1E00", <<"A", "U+0325">>>>,
      <<"U+1E01", <<"a", "U+0325">>>>, <<"U+1E02", <<"B", "U+0307">>>>,
      <<"U+1E03", <<"b", "U+0307">>>>, <<"U+1E04", <<"B", "U+0323">>>>,
      <<"U+1E05", <<"b", "U+0323">>>>, <<"U+1E06", <<"B", "U+0331">>>>,
      <<"U+1E07", <<"b", "U+0331">>>>,
      <<"U+1E08", <<"C", "U+0327", "U+0301">>>>,
      <<"U+1E09", <<"c", "U+0327", "U+0301">>>>,
      <<"U+1E0A", <<"D", "U+0307">>>>, <<"U+1E0B", <<"d", "U+0307">>>>,
      <<"U+1E0C", <<"D", "U+0323">>>>, <<"U+1E0D", <<"d", "U+0323">>>>,
      <<"U+1E0E", <<"D", "U+0331">>>>, <<"U+1E0F", <<"d", "U+0331">>>>,
      <<"U+1E10", <<"D", "U+0327">>>>, <<"U+1E11", <<"d", "U+0327">>>>,
      <<"U+1E12", <<"D", "U+032D">>>>, <<"U+1E13", <<"d", "U+032D">>>>,
      <<"U+1E14", <<"E", "U+0304", "U+0300">>>>,
      <<"U+1E15", <<"e", "U+0304", "U+0300">>>>,
      <<"U+1E16", <<"E", "U+0304", "U+0301">>>>,
      <<"U+1E17", <<"e", "U+0304", "U+0301">>>>,
      <<"U+1E18", <<"E", "U+032D">>>>, <<"U+1E19", <<"e", "U+032D">>>>,
      <<"U+1E1A", <<"E", "U+0330">>>>, <<"U+1E1B", <<"e", "U+0330">>>>,
      <<"U+1E1C", <<"E", "U+0327", "U+0306">>>>,
      <<"U+1E1D", <<"e", "U+0327", "U+0306">>>>,
      <<"U+1E1E", <<"F", "U+0307">>>>, <<"U+1E1F", <<"f", "U+0307">>>>,
      <<"U+1E20", <<"G", "U+0304">>>>, <<"U+1E21", <<"g", "U+0304">>>>,
      <<"U+1E22", <<"H", "U+0307">>>>, <<"U+1E23", <<"h", "U+0307">>>>,
      <<"U+1E24", <<"H", "U+0323">>>>, <<"U+1E25", <<"h", "U+0323">>>>,
      <<"U+1E26", <<"H", "U+0308">>>>, <<"U+1E27", <<"h", "U+0308">>>>,
      <<"U+1E28", <<"H", "U+0327">>>>, <<"U+1E29", <<"h", "U+0327">>>>,
      <<"U+1E2A", <<"H", "U+032E">>>>, <<"U+1E2B", <<"h", "U+032E">>>>,
      <<"U+1E2C", <<"I", "U+0330">>>>, <<"U+1E2D", <<"i", "U+0330">>>>,
      <<"U+1E2E", <<"I", "U+0308", "U+0301">>>>,
      <<"U+1E2F", <<"i", "U+0308", "U+0301">>>>,
      <<"U+1E30", <<"K", "U+0301">>>>, <<"U+1E31", <<"k", "U+0301">>>>,
      <<"U+1E32", <<"K", "U+0323">>>>, <<"U+1E33", <<"k", "U+0323">>>>,
      <<"U+1E34", <<"K", "U+0331">>>>, <<"U+1E35", <<"k", "U+0331">>>>,
      <<"U+1E36", <<"L", "U+0323">>>>, <<"U+1E37", <<"l", "U+0323">>>>,
      <<"U+1E38", <<"L", "U+0323", "U+0304">>>>,
      <<"U+1E39", <<"l", "U+0323", "U+0304">>>>,
      <<"U+1E3A", <<"L", "U+0331">>>>, <<"U+1E3B", <<"l", "U+0331">>>>,
      <<"U+1E3C", <<"L", "U+032D">>>>, <<"U+1E3D", <<"l", "U+032D">>>>,
      <<"U+1E3E", <<"M", "U+0301">>>>, <<"U+1E3F", <<"m", "U+0301">>>>,
      <<"U+1E40", <<"M", "U+0307">>>>, <<"U+1E41", <<"m", "U+0307">>>>,
      <<"U+1E42", <<"M", "U+0323">>>>, <<"U+1E43", <<"m", "U+0323">>>>,
      <<"U+1E44", <<"N", "U+0307">>>>, <<"U+1E45", <<"n", "U+0307">>>>,
      <<"U+1E46", <<"N", "U+0323">>>>, <<"U+1E47", <<"n", "U+0323">>>>,
      <<"U+1E48", <<"N", "U+0331">>>>, <<"U+1E49", <<"n", "U+0331">>>>,
      <<"U+1E4A", <<"N", "U+032D">>>>, <<"U+1E4B", <<"n", "U+032D">>>>,
      <<"U+1E4C", <<"O", "U+0303", "U+0301">>>>,
      <<"U+1E4D", <<"o", "U+0303", "U+0301">>>>,
      <<"U+1E4E", <<"O", "U+0303", "U+0308">>>>,
      <<"U+1E4F", <<"o", "U+0303", "U+0308">>>>,
      <<"U+1E50", <<"O", "U+0304", "U+0300">>>>,
      <<"U+1E51", <<"o", "U+0304", "U+0300">>>>,
      <<"U+1E52", <<"O", "U+0304", "U+0301">>>>,
      <<"U+1E53", <<"o", "U+0304", "U+0301">>>>,
      <<"U+1E54", <<"P", "U+0301">>>>, <<"U+1E55", <<"p", "U+0301">>>>,
      <<"U+1E56", <<"P", "U+0307">>>>, <<"U+1E57", <<"p", "U+0307">>>>,
      <<"U+1E58", <<"R", "U+0307">>>>, <<"U+1E59", <<"r", "U+0307">>>>,
      <<"U+1E5A", <<"R", "U+0323">>>>, <<"U+1E5B", <<"r", "U+0323">>>>,
      <<"U+1E5C", <<"R", "U+0323", "U+0304">>>>,
      <<"U+1E5D", <<"r", "U+0323", "U+0304">>>>,
      <<"U+1E5E", <<"R", "U+0331">>>>, <<"U+1E5F", <<"r", "U+0331">>>>,
      <<"U+1E60", <<"S", "U+0307">>>>, <<"U+1E61", <<"s", "U+0307">>>>,
      <<"U+1E62", <<"S", "U+0323">>>>, <<"U+1E63", <<"s", "U+0323">>>>,
      <<"U+1E64", <<"S", "U+0301", "U+0307">>>>,
      <<"U+1E65", <<"s", "U+0301", "U+0307">>>>,
      <<"U+1E66", <<"S", "U+030C", "U+0307">>>>,
      <<"U+1E67", <<"s", "U+030C", "U+0307">>>>,
      <<"U+1E68", <<"S", "U+0323", "U+0307">>>>,
      <<"U+1E69", <<"s", "U+0323", "U+0307">>>>,
      <<"U+1E6A", <<"T", "U+0307">>>>, <<"U+1E6B", <<"t", "U+0307">>>>,
      <<"U+1E6C", <<"T", "U+0323">>>>, <<"U+1E6D", <<"t", "U+0323">>>>,
      <<"U+1E6E", <<"T", "U+0331">>>>, <<"U+1E6F", <<"t", "U+0331">>>>,
      <<"U+1E70", <<"T", "U+032D">>>>, <<"U+1E71", <<"t", "U+032D">>>>,
      <<"U+1E72", <<"U", "U+0324">>>>, <<"U+1E73", <<"u", "U+0324">>>>,
      <<"U+1E74", <<"U", "U+0330">>>>, <<"U+1E75", <<"u", "U+0330">>>>,
      <<"U+1E76", <<"U", "U+032D">>>>, <<"U+1E77", <<"u", "U+032D">>>>,
      <<"U+1E78", <<"U", "U+0303", "U+0301">>>>,
      <<"U+1E79", <<"u", "U+0303", "U+0301">>>>,
      <<"U+1E7A", <<"U", "U+0304", "U+0308">>>>,
      <<"U+1E7B", <<"u", "U+0304", "U+0308">>>>,
      <<"U+1E7C", <<"V", "U+0303">>>>, <<"U+1E7D", <<"v", "U+0303">>>>,
      <<"U+1E7E", <<"V", "U+0323">>>>, <<"U+1E7F", <<"v", "U+0323">>>>,
      <<"U+1E80", <<"W", "U+0300">>>>, <<"U+1E81", <<"w", "U+0300">>>>,
      <<"U+1E82", <<"W", "U+0301">>>>, <<"U+1E83", <<"w", "U+0301">>>>,
      <<"U+1E84", <<"W", "U+0308">>>>, <<"U+1E85", <<"w", "U+0308">>>>,
      <<"U+1E86", <<"W", "U+0307">>>>, <<"U+1E87", <<"w", "U+0307">>>>,
      <<"U+1E88", <<"W", "U+0323">>>>, <<"U+1E89", <<"w", "U+0323">>>>,
      <<"U+1E8A", <<"X", "U+0307">>>>, <<"U+1E8B", <<"x", "U+0307">>>>,
      <<"U+1E8C", <<"X", "U+0308">>>>, <<"U+1E8D", <<"x", "U+0308">>>>,
      <<"U+1E8E", <<"Y", "U+0307">>>>, <<"U+1E8F", <<"y", "U+0307">>>>,
      <<"U+1E90", <<"Z", "U+0302">>>>, <<"U+1E91", <<"z", "U+0302">>>>,
      <<"U+1E92", <<"Z", "U+0323">>>>, <<"U+1E93", <<"z", "U+0323">>>>,
      <<"U+1E94", <<"Z", "U+0331">>>>, <<"U+1E95", <<"z", "U+0331">>>>,
      <<"U+1E96", <<"h", "U+0331">>>>, <<"U+1E97", <<"t", "U+0308">>>>,
      <<"U+1E98", <<"w", "U+030A">>>>, <<"U+1E99", <<"y", "U+030A">>>>,
      <<"U+1E9A", <<"a", "U+02BE">>>>, <<"U+1E9B", <<"s", "U+0307">>>>,
      <<"U+1EA0", <<"A", "U+0323">>>>, <<"U+1EA1", <<"a", "U+0323">>>>,
      <<"U+1EA2", <<"A", "U+0309">>>>, <<"U+1EA3", <<"a", "U+0309">>>>,
      <<"U+1EA4", <<"A", "U+0302", "U+0301">>>>,
      <<"U+1EA5", <<"a", "U+0302", "U+0301">>>>,
      <<"U+1EA6", <<"A", "U+0302", "U+0300">>>>,
      <<"U+1EA7", <<"a", "U+0302", "U+0300">>>>,
      <<"U+1EA8", <<"A", "U+0302", "U+0309">>>>,
      <<"U+1EA9", <<"a", "U+0302", "U+0309">>>>,
      <<"U+1EAA", <<"A", "U+0302", "U+0303">>>>,
      <<"U+1EAB", <<"a", "U+0302", "U+0303">>>>,
      <<"U+1EAC", <<"A", "U+0323", "U+0302">>>>,
      <<"U+1EAD", <<"a", "U+0323", "U+0302">>>>,
      <<"U+1EAE", <<"A", "U+0306", "U+0301">>>>,
      <<"U+1EAF", <<"a", "U+0306", "U+0301">>>>,
      <<"U+1EB0", <<"A", "U+0306", "U+0300">>>>,
      <<"U+1EB1", <<"a", "U+0306", "U+0300">>>>,
      <<"U+1EB2", <<"A", "U+0306", "U+0309">>>>,
      <<"U+1EB3", <<"a", "U+0306", "U+0309">>>>,
      <<"U+1EB4", <<"A", "U+0306", "U+0303">>>>,
      <<"U+1EB5", <<"a", "U+0306", "U+0303">>>>,
      <<"U+1EB6", <<"A", "U+0323", "U+0306">>>>,
      <<"U+1EB7", <<"a", "U+0323", "U+0306">>>>,
      <<"U+1EB8", <<"E", "U+0323">>>>, <<"U+1EB9", <<"e", "U+0323">>>>,
      <<"U+1EBA", <<"E", "U+0309">>>>, <<"U+1EBB", <<"e", "U+0309">>>>,
      <<"U+1EBC", <<"E", "U+0303">>>>, <<"U+1EBD", <<"e", "U+0303">>>>,
      <<"U+1EBE", <<"E", "U+0302", "U+0301">>>>,
      <<"U+1EBF", <<"e", "U+0302", "U+0301">>>>,
      <<"U+1EC0", <<"E", "U+0302", "U+0300">>>>,
      <<"U+1EC1", <<"e", "U+0302", "U+0300">>>>,
      <<"U+1EC2", <<"E", "U+0302", "U+0309">>>>,
      <<"U+1EC3", <<"e", "U+0302", "U+0309">>>>,
      <<"U+1EC4", <<"E", "U+0302", "U+0303">>>>,
      <<"U+1EC5", <<"e", "U+0302", "U+0303">>>>,
      <<"U+1EC6", <<"E", "U+0323", "U+0302">>>>,
      <<"U+1EC7", <<"e", "U+0323", "U+0302">>>>,
      <<"U+1EC8", <<"I", "U+0309">>>>, <<"U+1EC9", <<"i", "U+0309">>>>,
      <<"U+1ECA", <<"I", "U+0323">>>>, <<"U+1ECB", <<"i", "U+0323">>>>,
      <<"U+1ECC", <<"O", "U+0323">>>>, <<"U+1ECD", <<"o", "U+0323">>>>,
      <<"U+1ECE", <<"O", "U+0309">>>>, <<"U+1ECF", <<"o", "U+0309">>>>,
      <<"U+1ED0", <<"O", "U+0302", "U+0301">>>>,
      <<"U+1ED1", <<"o", "U+0302", "U+0301">>>>,
      <<"U+1ED2", <<"O", "U+0302", "U+0300">>>>,
      <<"U+1ED3", <<"o", "U+0302", "U+0300">>>>,
      <<"U+1ED4", <<"O", "U+0302", "U+0309">>>>,
      <<"U+1ED5", <<"o", "U+0302", "U+0309">>>>,
      <<"U+1ED6", <<"O", "U+0302", "U+0303">>>>,
      <<"U+1ED7", <<"o", "U+0302", "U+0303">>>>,
      <<"U+1ED8", <<"O", "U+0323", "U+0302">>>>,
      <<"U+1ED9", <<"o", "U+0323", "U+0302">>>>,
      <<"U+1EDA", <<"O", "U+031B", "U+0301">>>>,
      <<"U+1EDB", <<"o", "U+031B", "U+0301">>>>,
      <<"U+1EDC", <<"O", "U+031B", "U+0300">>>>,
      <<"U+1EDD", <<"o", "U+031B", "U+0300">>>>,
      <<"U+1EDE", <<"O", "U+031B", "U+0309">>>>,
      <<"U+1EDF", <<"o", "U+031B", "U+0309">>>>,
      <<"U+1EE0", <<"O", "U+031B", "U+0303">>>>,
      <<"U+1EE1", <<"o", "U+031B", "U+0303">>>>,
      <<"U+1EE2", <<"O", "U+031B", "U+0323">>>>,
      <<"U+1EE3", <<"o", "U+031B", "U+0323">>>>,
      <<"U+1EE4", <<"U", "U+0323">>>>, <<"U+1EE5", <<"u", "U+0323">>>>,
      <<"U+1EE6", <<"U", "U+0309">>>>, <<"U+1EE7", <<"u", "U+0309">>>>,
      <<"U+1EE8", <<"U", "U+031B", "U+0301">>>>,
      <<"U+1EE9", <<"u", "U+031B", "U+0301">>>>,
      <<"U+1EEA", <<"U", "U+031B", "U+0300">>>>,
      <<"U+1EEB", <<"u", "U+031B", "U+0300">>>>,
      <<"U+1EEC", <<"U", "U+031B", "U+0309">>>>,
      <<"U+1EED", <<"u", "U+031B", "U+0309">>>>,
      <<"U+1EEE", <<"U", "U+031B", "U+0303">>>>,
      <<"U+1EEF", <<"u", "U+031B", "U+0303">>>>,
      <<"U+1EF0", <<"U", "U+031B", "U+0323">>>>,
      <<"U+1EF1", <<"u", "U+031B", "U+0323">>>>,
      <<"U+1EF2", <<"Y", "U+0300">>>>, <<"U+1EF3", <<"y", "U+0300">>>>,
      <<"U+1EF4", <<"Y", "U+0323">>>>, <<"U+1EF5", <<"y", "U+0323">>>>,
      <<"U+1EF6", <<"Y", "U+0309">>>>, <<"U+1EF7", <<"y", "U+0309">>>>,
      <<"U+1EF8", <<"Y", "U+0303">>>>, <<"U+1EF9", <<"y", "U+0303">>>>,
      <<"U+1F00", <<"U+03B1", "U+0313">>>>,
      <<"U+1F01", <<"U+03B1", "U+0314">>>>,
      <<"U+1F02", <<"U+03B1", "U+0313", "U+0300">>>>,
      <<"U+1F03", <<"U+03B1", "U+0314", "U+0300">>>>,
      <<"U+1F04", <<"U+03B1", "U+0313", "U+0301">>>>,
      <<"U+1F05", <<"U+03B1", "U+0314", "U+0301">>>>,
      <<"U+1F06", <<"U+03B1", "U+0313", "U+0342">>>>,
      <<"U+1F07", <<"U+03B1", "U+0314", "U+0342">>>>,
      <<"U+1F08", <<"U+0391", "U+0313">>>>,
      <<"U+1F09", <<"U+0391", "U+0314">>>>,
      <<"U+1F0A", <<"U+0391", "U+0313", "U+0300">>>>,
      <<"U+1F0B", <<"U+0391", "U+0314", "U+0300">>>>,
      <<"U+1F0C", <<"U+0391", "U+0313", "U+0301">>>>,
      <<"U+1F0D", <<"U+0391", "U+0314", "U+0301">>>>,
      <<"U+1F0E", <<"U+0391", "U+0313", "U+0342">>>>,
      <<"U+1F0F", <<"U+0391", "U+0314", "U+0342">>>>,
      <<"U+1F10", <<"U+03B5", "U+0313">>>>,
      <<"U+1F11", <<"U+03B5", "U+0314">>>>,
      <<"U+1F12", <<"U+03B5", "U+0313", "U+0300">>>>,
      <<"U+1F13", <<"U+03B5", "U+0314", "U+0300">>>>,
      <<"U+1F14", <<"U+03B5", "U+0313", "U+0301">>>>,
      <<"U+1F15", <<"U+03B5", "U+0314", "U+0301">>>>,
      <<"U+1F18", <<"U+0395", "U+0313">>>>,
      <<"U+1F19", <<"U+0395", "U+0314">>>>,
      <<"U+1F1A", <<"U+0395", "U+0313", "U+0300">>>>,
      <<"U+1F1B", <<"U+0395", "U+0314", "U+0300">>>>,
      <<"U+1F1C", <<"U+0395", "U+0313", "U+0301">>>>,
      <<"U+1F1D", <<"U+0395", "U+0314", "U+0301">>>>,
      <<"U+1F20", <<"U+03B7", "U+0313">>>>,
      <<"U+1F21", <<"U+03B7", "U+0314">>>>,
      <<"U+1F22", <<"U+03B7", "U+0313", "U+0300">>>>,
      <<"U+1F23", <<"U+03B7", "U+0314", "U+0300">>>>,
      <<"U+1F24", <<"U+03B7", "U+0313", "U+0301">>>>,
      <<"U+1F25", <<"U+03B7", "U+0314", "U+0301">>>>,
      <<"U+1F26", <<"U+03B7", "U+0313", "U+0342">>>>,
      <<"U+1F27", <<"U+03B7", "U+0314", "U+0342">>>>,
      <<"U+1F28", <<"U+0397", "U+0313">>>>,
      <<"U+1F29", <<"U+0397", "U+0314">>>>,
      <<"U+1F2A", <<"U+0397", "U+0313", "U+0300">>>>,
      <<"U+1F2B", <<"U+0397", "U+0314", "U+0300">>>>,
      <<"U+1F2C", <<"U+0397", "U+0313", "U+0301">>>>,
      <<"U+1F2D", <<"U+0397", "U+0314", "U+0301">>>>,
      <<"U+1F2E", <<"U+0397", "U+0313", "U+0342">>>>,
      <<"U+1F2F", <<"U+0397", "U+0314", "U+0342">>>>,
      <<"U+1F30", <<"U+03B9", "U+0313">>>>,
      <<"U+1F31", <<"U+03B9", "U+0314">>>>,
      <<"U+1F32", <<"U+03B9", "U+0313", "U+0300">>>>,
      <<"U+1F33", <<"U+03B9", "U+0314", "U+0300">>>>,
      <<"U+1F34", <<"U+03B9", "U+0313", "U+0301">>>>,
      <<"U+1F35", <<"U+03B9", "U+0314", "U+0301">>>>,
      <<"U+1F36", <<"U+03B9", "U+0313", "U+0342">>>>,
      <<"U+1F37", <<"U+03B9", "U+0314", "U+0342">>>>,
      <<"U+1F38", <<"U+0399", "U+0313">>>>,
      <<"U+1F39", <<"U+0399", "U+0314">>>>,
      <<"U+1F3A", <<"U+0399", "U+0313", "U+0300">>>>,
      <<"U+1F3B", <<"U+0399", "U+0314", "U+0300">>>>,
      <<"U+1F3C", <<"U+0399", "U+0313", "U+0301">>>>,
      <<"U+1F3D", <<"U+0399", "U+0314", "U+0301">>>>,
      <<"U+1F3E", <<"U+0399", "U+0313", "U+0342">>>>,
      <<"U+1F3F", <<"U+0399", "U+0314", "U+0342">>>>,
      <<"U+1F40", <<"U+03BF", "U+0313">>>>,
      <<"U+1F41", <<"U+03BF", "U+0314">>>>,
      <<"U+1F42", <<"U+03BF", "U+0313", "U+0300">>>>,
      <<"U+1F43", <<"U+03BF", "U+0314", "U+0300">>>>,
      <<"U+1F44", <<"U+03BF", "U+0313", "U+0301">>>>,
      <<"U+1F45", <<"U+03BF", "U+0314", "U+0301">>>>,
      <<"U+1F48", <<"U+039F", "U+0313">>>>,
      <<"U+1F49", <<"U+039F", "U+0314">>>>,
      <<"U+1F4A", <<"U+039F", "U+0313", "U+0300">>>>,
      <<"U+1F4B", <<"U+039F", "U+0314", "U+0300">>>>,
      <<"U+1F4C", <<"U+039F", "U+0313", "U+0301">>>>,
      <<"U+1F4D", <<"U+039F", "U+0314", "U+0301">>>>,
      <<"U+1F50", <<"U+03C5", "U+0313">>>>,
      <<"U+1F51", <<"U+03C5", "U+0314">>>>,
      <<"U+1F52", <<"U+03C5", "U+0313", "U+0300">>>>,
      <<"U+1F53", <<"U+03C5", "U+0314", "U+0300">>>>,
      <<"U+1F54", <<"U+03C5", "U+0313", "U+0301">>>>,
      <<"U+1F55", <<"U+03C5", "U+0314", "U+0301">>>>,
      <<"U+1F56", <<"U+03C5", "U+0313", "U+0342">>>>,
      <<"U+1F57", <<"U+03C5", "U+0314", "U+0342">>>>,
      <<"U+1F59", <<"U+03A5", "U+0314">>>>,
      <<"U+1F5B", <<"U+03A5", "U+0314", "U+0300">>>>,
      <<"U+1F5D", <<"U+03A5", "U+0314", "U+0301">>>>,
      <<"U+1F5F", <<"U+03A5", "U+0314", "U+0342">>>>,
      <<"U+1F60", <<"U+03C9", "U+0313">>>>,
      <<"U+1F61", <<"U+03C9", "U+0314">>>>,
      <<"U+1F62", <<"U+03C9", "U+0313", "U+0300">>>>,
      <<"U+1F63", <<"U+03C9", "U+0314", "U+0300">>>>,
      <<"U+1F64", <<"U+03C9", "U+0313", "U+0301">>>>,
      <<"U+1F65", <<"U+03C9", "U+0314", "U+0301">>>>,
      <<"U+1F66", <<"U+03C9", "U+0313", "U+0342">>>>,
      <<"U+1F67", <<"U+03C9", "U+0314", "U+0342">>>>,
      <<"U+1F68", <<"U+03A9", "U+0313">>>>,
      <<"U+1F69", <<"U+03A9", "U+0314">>>>,
      <<"U+1F6A", <<"U+03A9", "U+0313", "U+0300">>>>,
      <<"U+1F6B", <<"U+03A9", "U+0314", "U+0300">>>>,
      <<"U+1F6C", <<"U+03A9", "U+0313", "U+0301">>>>,
      <<"U+1F6D", <<"U+03A9", "U+0314", "U+0301">>>>,
      <<"U+1F6E", <<"U+03A9", "U+0313", "U+0342">>>>,
      <<"U+1F6F", <<"U+03A9", "U+0314", "U+0342">>>>,
      <<"U+1F70", <<"U+03B1", "U+0300">>>>,
      <<"U+1F71", <<"U+03B1", "U+0301">>>>,
      <<"U+1F72", <<"U+03B5", "U+0300">>>>,
      <<"U+1F73", <<"U+03B5", "U+0301">>>>,
      <<"U+1F74", <<"U+03B7", "U+0300">>>>,
      <<"U+1F75", <<"U+03B7", "U+0301">>>>,
      <<"U+1F76", <<"U+03B9", "U+0300">>>>,
      <<"U+1F77", <<"U+03B9", "U+0301">>>>,
      <<"U+1F78", <<"U+03BF", "U+0300">>>>,
      <<"U+1F79", <<"U+03BF", "U+0301">>>>,
      <<"U+1F7A", <<"U+03C5", "U+0300">>>>,
      <<"U+1F7B", <<"U+03C5", "U+0301">>>>,
      <<"U+1F7C", <<"U+03C9", "U+0300">>>>,
      <<"U+1F7D", <<"U+03C9", "U+0301">>>>,
      <<"U+1F80", <<"U+03B1", "U+0313", "U+0345">>>>,
      <<"U+1F81", <<"U+03B1", "U+0314", "U+0345">>>>,
      <<"U+1F82", <<"U+03B1", "U+0313", "U+0300", "U+0345">>>>,
      <<"U+1F83", <<"U+03B1", "U+0314", "U+0300", "U+0345">>>>,
      <<"U+1F84", <<"U+03B1", "U+0313", "U+0301", "U+0345">>>>,
      <<"U+1F85", <<"U+03B1", "U+0314", "U+0301", "U+0345">>>>,
      <<"U+1F86", <<"U+03B1", "U+0313", "U+0342", "U+0345">>>>,
      <<"U+1F87", <<"U+03B1", "U+0314", "U+0342", "U+0345">>>>,
      <<"U+1F88", <<"U+0391", "U+0313", "U+0345">>>>,
      <<"U+1F89", <<"U+0391", "U+0314", "U+0345">>>>,
      <<"U+1F8A", <<"U+0391", "U+0313", "U+0300", "U+0345">>>>,
      <<"U+1F8B", <<"U+0391", "U+0314", "U+0300", "U+0345">>>>,
      <<"U+1F8C", <<"U+0391", "U+0313", "U+0301", "U+0345">>>>,
      <<"U+1F8D", <<"U+0391", "U+0314", "U+0301", "U+0345">>>>,
      <<"U+1F8E", <<"U+0391", "U+0313", "U+0342", "U+0345">>>>,
      <<"U+1F8F", <<"U+0391", "U+0314", "U+0342", "U+0345">>>>,
      <<"U+1F90", <<"U+03B7", "U+0313", "U+0345">>>>,
      <<"U+1F91", <<"U+03B7", "U+0314", "U+0345">>>>,
      <<"U+1F92", <<"U+03B7", "U+0313", "U+0300", "U+0345">>>>,
      <<"U+1F93", <<"U+03B7", "U+0314", "U+0300", "U+0345">>>>,
      <<"U+1F94", <<"U+03B7", "U+0313", "U+0301", "U+0345">>>>,
      <<"U+1F95", <<"U+03B7", "U+0314", "U+0301", "U+0345">>>>,
      <<"U+1F96", <<"U+03B7", "U+0313", "U+0342", "U+0345">>>>,
      <<"U+1F97", <<"U+03B7", "U+0314", "U+0342", "U+0345">>>>,
      <<"U+1F98", <<"U+0397", "U+0313", "U+0345">>>>,
      <<"U+1F99", <<"U+0397", "U+0314", "U+0345">>>>,
      <<"U+1F9A", <<"U+0397", "U+0313", "U+0300", "U+0345">>>>,
      <<"U+1F9B", <<"U+0397", "U+0314", "U+0300", "U+0345">>>>,
      <<"U+1F9C", <<"U+0397", "U+0313", "U+0301", "U+0345">>>>,
      <<"U+1F9D", <<"U+0397", "U+0314", "U+0301", "U+0345">>>>,
      <<"U+1F9E", <<"U+0397", "U+0313", "U+0342", "U+0345">>>>,
      <<"U+1F9F", <<"U+0397", "U+0314", "U+0342", "U+0345">>>>,
      <<"U+1FA0", <<"U+03C9", "U+0313", "U+0345">>>>,
      <<"U+1FA1", <<"U+03C9", "U+0314", "U+0345">>>>,
      <<"U+1FA2", <<"U+03C9", "U+0313", "U+0300", "U+0345">>>>,
      <<"U+1FA3", <<"U+03C9", "U+0314", "U+0300", "U+0345">>>>,
      <<"U+1FA4", <<"U+03C9", "U+0313", "U+0301", "U+0345">>>>,
      <<"U+1FA5", <<"U+03C9", "U+0314", "U+0301", "U+0345">>>>,
      <<"U+1FA6", <<"U+03C9", "U+0313", "U+0342", "U+0345">>>>,
      <<"U+1FA7", <<"U+03C9", "U+0314", "U+0342", "U+0345">>>>,
      <<"U+1FA8", <<"U+03A9", "U+0313", "U+0345">>>>,
      <<"U+1FA9", <<"U+03A9", "U+0314", "U+0345">>>>,
      <<"U+1FAA", <<"U+03A9", "U+0313", "U+0300", "U+0345">>>>,
      <<"U+1FAB", <<"U+03A9", "U+0314", "U+0300", "U+0345">>>>,
      <<"U+1FAC", <<"U+03A9", "U+0313", "U+0301", "U+0345">>>>,
      <<"U+1FAD", <<"U+03A9", "U+0314", "U+0301", "U+0345">>>>,
      <<"U+1FAE", <<"U+03A9", "U+0313", "U+0342", "U+0345">>>>,
      <<"U+1FAF", <<"U+03A9", "U+0314", "U+0342", "U+0345">>>>,
      <<"U+1FB0", <<"U+03B1", "U+0306">>>>,
      <<"U+1FB1", <<"U+03B1", "U+0304">>>>,
      <<"U+1FB2", <<"U+03B1", "U+0300", "U+0345">>>>,
      <<"U+1FB3", <<"U+03B1", "U+0345">>>>,
      <<"U+1FB4", <<"U+03B1", "U+0301", "U+0345">>>>,
      <<"U+1FB6", <<"U+03B1", "U+0342">>>>,
      <<"U+1FB7", <<"U+03B1", "U+0342", "U+0345">>>>,
      <<"U+1FB8", <<"U+0391", "U+0306">>>>,
      <<"U+1FB9", <<"U+0391", "U+0304">>>>,
      <<"U+1FBA", <<"U+0391", "U+0300">>>>,
      <<"U+1FBB", <<"U+0391", "U+0301">>>>,
      <<"U+1FBC", <<"U+0391", "U+0345">>>>, <<"U+1FBD", <<" ", "U+0313">>>>,
      <<"U+1FBE", <<"U+03B9">>>>, <<"U+1FBF", <<" ", "U+0313">>>>,
      <<"U+1FC0", <<" ", "U+0342">>>>,
      <<"U+1FC1", <<" ", "U+0308", "U+0342">>>>,
      <<"U+1FC2", <<"U+03B7", "U+0300", "U+0345">>>>,
      <<"U+1FC3", <<"U+03B7", "U+0345">>>>,
      <<"U+1FC4", <<"U+03B7", "U+0301", "U+0345">>>>,
      <<"U+1FC6", <<"U+03B7", "U+0342">>>>,
      <<"U+1FC7", <<"U+03B7", "U+0342", "U+0345">>>>,
      <<"U+1FC8", <<"U+0395", "U+0300">>>>,
      <<"U+1FC9", <<"U+0395", "U+0301">>>>,
      <<"U+1FCA", <<"U+0397", "U+0300">>>>,
      <<"U+1FCB", <<"U+0397", "U+0301">>>>,
      <<"U+1FCC", <<"U+0397", "U+0345">>>>,
      <<"U+1FCD", <<" ", "U+0313", "U+0300">>>>,
      <<"U+1FCE", <<" ", "U+0313", "U+0301">>>>,
      <<"U+1FCF", <<" ", "U+0313", "U+0342">>>>,
      <<"U+1FD0", <<"U+03B9", "U+0306">>>>,
      <<"U+1FD1", <<"U+03B9", "U+0304">>>>,
      <<"U+1FD2", <<"U+03B9", "U+0308", "U+0300">>>>,
      <<"U+1FD3", <<"U+03B9", "U+0308", "U+0301">>>>,
      <<"U+1FD6", <<"U+03B9", "U+0342">>>>,
      <<"U+1FD7", <<"U+03B9", "U+0308", "U+0342">>>>,
      <<"U+1FD8", <<"U+0399", "U+0306">>>>,
      <<"U+1FD9", <<"U+0399", "U+0304">>>>,
      <<"U+1FDA", <<"U+0399", "U+0300">>>>,
      <<"U+1FDB", <<"U+0399", "U+0301">>>>,
      <<"U+1FDD", <<" ", "U+0314", "U+0300">>>>,
      <<"U+1FDE", <<" ", "U+0314", "U+0301">>>>,
      <<"U+1FDF", <<" ", "U+0314", "U+0342">>>>,
      <<"U+1FE0", <<"U+03C5", "U+0306">>>>,
      <<"U+1FE1", <<"U+03C5", "U+0304">>>>,
      <<"U+1FE2", <<"U+03C5", "U+0308", "U+0300">>>>,
      <<"U+1FE3", <<"U+03C5", "U+0308", "U+0301">>>>,
      <<"U+1FE4", <<"U+03C1", "U+0313">>>>,
      <<"U+1FE5", <<"U+03C1", "U+0314">>>>,
      <<"U+1FE6", <<"U+03C5", "U+0342">>>>,
      <<"U+1FE7", <<"U+03C5", "U+0308", "U+0342">>>>,
      <<"U+1FE8", <<"U+03A5", "U+0306">>>>,
      <<"U+1FE9", <<"U+03A5", "U+0304">>>>,
      <<"U+1FEA", <<"U+03A5", "U+0300">>>>,
      <<"U+1FEB", <<"U+03A5", "U+0301">>>>,
      <<"U+1FEC", <<"U+03A1", "U+0314">>>>,
      <<"U+1FED", <<" ", "U+0308", "U+0300">>>>,
      <<"U+1FEE", <<" ", "U+0308", "U+0301">>>>, <<"U+1FEF", <<"U+0060">>>>,
      <<"U+1FF2", <<"U+03C9", "U+0300", "U+0345">>>>,
      <<"U+1FF3", <<"U+03C9", "U+0345">>>>,
      <<"U+1FF4", <<"U+03C9", "U+0301", "U+0345">>>>,
      <<"U+1FF6", <<"U+03C9", "U+0342">>>>,
      <<"U+1FF7", <<"U+03C9", "U+0342", "U+0345">>>>,
      <<"U+1FF8", <<"U+039F", "U+0300">>>>,
      <<"U+1FF9", <<"U+039F", "U+0301">>>>,
      <<"U+1FFA", <<"U+03A9", "U+0300">>>>,
      <<"U+1FFB", <<"U+03A9", "U+0301">>>>,
      <<"U+1FFC", <<"U+03A9", "U+0345">>>>, <<"U+1FFD", <<" ", "U+0301">>>>,
      <<"U+1FFE", <<" ", "U+0314">>>>, <<"U+2000", <<" ">>>>,
      <<"U+2001", <<" ">>>>, <<"U+2002", <<" ">>>>, <<"U+2003", <<" ">>>>,
      <<"U+2004", <<" ">>>>, <<"U+2005", <<" ">>>>, <<"U+2006", <<" ">>>>,
      <<"U+2007", <<" ">>>>, <<"U+2008", <<" ">>>>, <<"U+2009", <<" ">>>>,
      <<"U+200A", <<" ">>>>, <<"U+2011", <<"U+2010">>>>,
      <<"U+2017", <<" ", "U+0333">>>>, <<"U+2024", <<".">>>>,
      <<"U+2025", <<".", ".">>>>, <<"U+2026", <<".", ".", ".">>>>,
      <<"U+202F", <<" ">>>>, <<"U+2033", <<"U+2032", "U+2032">>>>,
      <<"U+2034", <<"U+2032", "U+2032", "U+2032">>>>,
      <<"U+2036", <<"U+2035", "U+2035">>>>,
      <<"U+2037", <<"U+2035", "U+2035", "U+2035">>>>,
      <<"U+203C", <<"!", "!">>>>, <<"U+203E", <<" ", "U+0305">>>>,
      <<"U+2047", <<"?", "?">>>>, <<"U+2048", <<"?", "!">>>>,
      <<"U+2049", <<"!", "?">>>>,
      <<"U+2057", <<"U+2032", "U+2032", "U+2032", "U+2032">>>>,
      <<"U+205F", <<" ">>>>, <<"U+2070", <<"0">>>>, <<"U+2071", <<"i">>>>,
      <<"U+2074", <<"4">>>>, <<"U+2075", <<"5">>>>, <<"U+2076", <<"6">>>>,
      <<"U+2077", <<"7">>>>, <<"U+2078", <<"8">>>>, <<"U+2079", <<"9">>>>,
      <<"U+207A", <<"+">>>>, <<"U+207B", <<"U+2212">>>>,
      <<"U+207C", <<"=">>>>, <<"U+207D", <<"(">>>>, <<"U+207E", <<")">>>>,
      <<"U+207F", <<"n">>>>, <<"U+2080", <<"0">>>>, <<"U+2081", <<"1">>>>,
      <<"U+2082", <<"2">>>>, <<"U+2083", <<"3">>>>, <<"U+2084", <<"4">>>>,
      <<"U+2085", <<"5">>>>, <<"U+2086", <<"6">>>>, <<"U+2087", <<"7">>>>,
      <<"U+2088", <<"8">>>>, <<"U+2089", <<"9">>>>, <<"U+208A", <<"+">>>>,
      <<"U+208B", <<"U+2212">>>>, <<"U+208C", <<"=">>>>,
      <<"U+208D", <<"(">>>>, <<"U+208E", <<")">>>>, <<"U+2090", <<"a">>>>,
      <<"U+2091", <<"e">>>>, <<"U+2092", <<"o">>>>, <<"U+2093", <<"x">>>>,
      <<"U+2094", <<"U+0259">>>>, <<"U+2095", <<"h">>>>,
      <<"U+2096", <<"k">>>>, <<"U+2097", <<"l">>>>, <<"U+2098", <<"m">>>>,
      <<"U+2099", <<"n">>>>, <<"U+209A", <<"p">>>>, <<"U+209B", <<"s">>>>,
      <<"U+209C", <<"t">>>>, <<"U+20A8", <<"R", "s">>>>,
      <<"U+2100", <<"a", "/", "c">>>>, <<"U+2101", <<"a", "/", "s">>>>,
      <<"U+2102", <<"C">>>>, <<"U+2103", <<"U+00B0", "C">>>>,
      <<"U+2105", <<"c", "/", "o">>>>, <<"U+2106", <<"c", "/", "u">>>>,
      <<"U+2107", <<"U+0190">>>>, <<"U+2109", <<"U+00B0", "F">>>>,
      <<"U+210A", <<"g">>>>, <<"U+210B", <<"H">>>>, <<"U+210C", <<"H">>>>,
      <<"U+210D", <<"H">>>>, <<"U+210E", <<"h">>>>,
      <<"U+210F", <<"U+0127">>>>, <<"U+2110", <<"I">>>>,
      <<"U+2111", <<"I">>>>, <<"U+2112", <<"L">>>>, <<"U+2113", <<"l">>>>,
      <<"U+2115", <<"N">>>>, <<"U+2116", <<"N", "o">>>>,
      <<"U+2119", <<"P">>>>, <<"U+211A", <<"Q">>>>, <<"U+211B", <<"R">>>>,
      <<"U+211C", <<"R">>>>, <<"U+211D", <<"R">>>>,
      <<"U+2120", <<"S", "M">>>>, <<"U+2121", <<"T", "E", "L">>>>,
      <<"U+2122", <<"T", "M">>>>, <<"U+2124", <<"Z">>>>,
      <<"U+2126", <<"U+03A9">>>>, <<"U+2128", <<"Z">>>>,
      <<"U+212A", <<"K">>>>, <<"U+212B", <<"A", "U+030A">>>>,
      <<"U+212C", <<"B">>>>, <<"U+212D", <<"C">>>>, <<"U+212F", <<"e">>>>,
      <<"U+2130", <<"E">>>>, <<"U+2131", <<"F">>>>, <<"U+2133", <<"M">>>>,
      <<"U+2134", <<"o">>>>, <<"U+2135", <<"U+05D0">>>>,
      <<"U+2136", <<"U+05D1">>>>, <<"U+2137", <<"U+05D2">>>>,
      <<"U+2138", <<"U+05D3">>>>, <<"U+2139", <<"i">>>>,
      <<"U+213B", <<"F", "A", "X">>>>, <<"U+213C", <<"U+03C0">>>>,
      <<"U+213D", <<"U+03B3">>>>, <<"U+213E", <<"U+0393">>>>,
      <<"U+213F", <<"U+03A0">>>>, <<"U+2140", <<"U+2211">>>>,
      <<"U+2145", <<"D">>>>, <<"U+2146", <<"d">>>>, <<"U+2147", <<"e">>>>,
      <<"U+2148", <<"i">>>>, <<"U+2149", <<"j">>>>,
      <<"U+2150", <<"1", "U+2044", "7">>>>,
      <<"U+2151", <<"1", "U+2044", "9">>>>,
      <<"U+2152", <<"1", "U+2044", "1", "0">>>>,
      <<"U+2153", <<"1", "U+2044", "3">>>>,
      <<"U+2154", <<"2", "U+2044", "3">>>>,
      <<"U+2155", <<"1", "U+2044", "5">>>>,
      <<"U+2156", <<"2", "U+2044", "5">>>>,
      <<"U+2157", <<"3", "U+2044", "5">>>>,
      <<"U+2158", <<"4", "U+2044", "5">>>>,
      <<"U+2159", <<"1", "U+2044", "6">>>>,
      <<"U+215A", <<"5", "U+2044", "6">>>>,
      <<"U+215B", <<"1", "U+2044", "8">>>>,
      <<"U+215C", <<"3", "U+2044", "8">>>>,
      <<"U+215D", <<"5", "U+2044", "8">>>>,
      <<"U+215E", <<"7", "U+2044", "8">>>>, <<"U+215F", <<"1", "U+2044">>>>,
      <<"U+2160", <<"I">>>>, <<"U+2161", <<"I", "I">>>>,
      <<"U+2162", <<"I", "I", "I">>>>, <<"U+2163", <<"I", "V">>>>,
      <<"U+2164", <<"V">>>>, <<"U+2165", <<"V", "I">>>>,
      <<"U+2166", <<"V", "I", "I">>>>, <<"U+2167", <<"V", "I", "I", "I">>>>,
      <<"U+2168", <<"I", "X">>>>, <<"U+2169", <<"X">>>>,
      <<"U+216A", <<"X", "I">>>>, <<"U+216B", <<"X", "I", "I">>>>,
      <<"U+216C", <<"L">>>>, <<"U+216D", <<"C">>>>, <<"U+216E", <<"D">>>>,
      <<"U+216F", <<"M">>>>, <<"U+2170", <<"i">>>>,
      <<"U+2171", <<"i", "i">>>>, <<"U+2172", <<"i", "i", "i">>>>,
      <<"U+2173", <<"i", "v">>>>, <<"U+2174", <<"v">>>>,
      <<"U+2175", <<"v", "i">>>>, <<"U+2176", <<"v", "i", "i">>>>,
      <<"U+2177", <<"v", "i", "i", "i">>>>, <<"U+2178", <<"i", "x">>>>,
      <<"U+2179", <<"x">>>>, <<"U+217A", <<"x", "i">>>>,
      <<"U+217B", <<"x", "i", "i">>>>, <<"U+217C", <<"l">>>>,
      <<"U+217D", <<"c">>>>, <<"U+217E", <<"d">>>>, <<"U+217F", <<"m">>>>,
      <<"U+2189", <<"0", "U+2044", "3">>>>,
      <<"U+219A", <<"U+2190", "U+0338">>>>,
      <<"U+219B", <<"U+2192", "U+0338">>>>,
      <<"U+21AE", <<"U+2194", "U+0338">>>>,
      <<"U+21CD", <<"U+21D0", "U+0338">>>>,
      <<"U+21CE", <<"U+21D4", "U+0338">>>>,
      <<"U+21CF", <<"U+21D2", "U+0338">>>>,
      <<"U+2204", <<"U+2203", "U+0338">>>>,
      <<"U+2209", <<"U+2208", "U+0338">>>>,
      <<"U+220C", <<"U+220B", "U+0338">>>>,
      <<"U+2224", <<"U+2223", "U+0338">>>>,
      <<"U+2226", <<"U+2225", "U+0338">>>>,
      <<"U+222C", <<"U+222B", "U+222B">>>>,
      <<"U+222D", <<"U+222B", "U+222B", "U+222B">>>>,
      <<"U+222F", <<"U+222E", "U+222E">>>>,
      <<"U+2230", <<"U+222E", "U+222E", "U+222E">>>>,
      <<"U+2241", <<"U+223C", "U+0338">>>>,
      <<"U+2244", <<"U+2243", "U+0338">>>>,
      <<"U+2247", <<"U+2245", "U+0338">>>>,
      <<"U+2249", <<"U+2248", "U+0338">>>>, <<"U+2260", <<"=", "U+0338">>>>,
      <<"U+2262", <<"U+2261", "U+0338">>>>,
      <<"U+226D", <<"U+224D", "U+0338">>>>, <<"U+226E", <<"<", "U+0338">>>>,
      <<"U+226F", <<">", "U+0338">>>>, <<"U+2270", <<"U+2264", "U+0338">>>>,
      <<"U+2271", <<"U+2265", "U+0338">>>>,
      <<"U+2274", <<"U+2272", "U+0338">>>>,
      <<"U+2275", <<"U+2273", "U+0338">>>>,
      <<"U+2278", <<"U+2276", "U+0338">>>>,
      <<"U+2279", <<"U+2277", "U+0338">>>>,
      <<"U+2280", <<"U+227A", "U+0338">>>>,
      <<"U+2281", <<"U+227B", "U+0338">>>>,
      <<"U+2284", <<"U+2282", "U+0338">>>>,
      <<"U+2285", <<"U+2283", "U+0338">>>>,
      <<"U+2288", <<"U+2286", "U+0338">>>>,
      <<"U+2289", <<"U+2287", "U+0338">>>>,
      <<"U+22AC", <<"U+22A2", "U+0338">>>>,
      <<"U+22AD", <<"U+22A8", "U+0338">>>>,
      <<"U+22AE", <<"U+22A9", "U+0338">>>>,
      <<"U+22AF", <<"U+22AB", "U+0338">>>>,
      <<"U+22E0", <<"U+227C", "U+0338">>>>,
      <<"U+22E1", <<"U+227D", "U+0338">>>>,
      <<"U+22E2", <<"U+2291", "U+0338">>>>,
      <<"U+22E3", <<"U+2292", "U+0338">>>>,
      <<"U+22EA", <<"U+22B2", "U+0338">>>>,
      <<"U+22EB", <<"U+22B3", "U+0338">>>>,
      <<"U+22EC", <<"U+22B4", "U+0338">>>>,
      <<"U+22ED", <<"U+22B5", "U+0338">>>>, <<"U+2329", <<"U+3008">>>>,
      <<"U+232A", <<"U+3009">>>>, <<"U+2460", <<"1">>>>,
      <<"U+2461", <<"2">>>>, <<"U+2462", <<"3">>>>, <<"U+2463", <<"4">>>>,
      <<"U+2464", <<"5">>>>, <<"U+2465", <<"6">>>>, <<"U+2466", <<"7">>>>,
      <<"U+2467", <<"8">>>>, <<"U+2468", <<"9">>>>,
      <<"U+2469", <<"1", "0">>>>, <<"U+246A", <<"1", "1">>>>,
      <<"U+246B", <<"1", "2">>>>, <<"U+246C", <<"1", "3">>>>,
      <<"U+246D", <<"1", "4">>>>, <<"U+246E", <<"1", "5">>>>,
      <<"U+246F", <<"1", "6">>>>, <<"U+2470", <<"1", "7">>>>,
      <<"U+2471", <<"1", "8">>>>, <<"U+2472", <<"1", "9">>>>,
      <<"U+2473", <<"2", "0">>>>, <<"U+2474", <<"(", "1", ")">>>>,
      <<"U+2475", <<"(", "2", ")">>>>, <<"U+2476", <<"(", "3", ")">>>>,
      <<"U+2477", <<"(", "4", ")">>>>, <<"U+2478", <<"(", "5", ")">>>>,
      <<"U+2479", <<"(", "6", ")">>>>, <<"U+247A", <<"(", "7", ")">>>>,
      <<"U+247B", <<"(", "8", ")">>>>, <<"U+247C", <<"(", "9", ")">>>>,
      <<"U+247D", <<"(", "1", "0", ")">>>>,
      <<"U+247E", <<"(", "1", "1", ")">>>>,
      <<"U+247F", <<"(", "1", "2", ")">>>>,
      <<"U+2480", <<"(", "1", "3", ")">>>>,
      <<"U+2481", <<"(", "1", "4", ")">>>>,
      <<"U+2482", <<"(", "1", "5", ")">>>>,
      <<"U+2483", <<"(", "1", "6", ")">>>>,
      <<"U+2484", <<"(", "1", "7", ")">>>>,
      <<"U+2485", <<"(", "1", "8", ")">>>>,
      <<"U+2486", <<"(", "1", "9", ")">>>>,
      <<"U+2487", <<"(", "2", "0", ")">>>>, <<"U+2488", <<"1", ".">>>>,
      <<"U+2489", <<"2", ".">>>>, <<"U+248A", <<"3", ".">>>>,
      <<"U+248B", <<"4", ".">>>>, <<"U+248C", <<"5", ".">>>>,
      <<"U+248D", <<"6", ".">>>>, <<"U+248E", <<"7", ".">>>>,
      <<"U+248F", <<"8", ".">>>>, <<"U+2490", <<"9", ".">>>>,
      <<"U+2491", <<"1", "0", ".">>>>, <<"U+2492", <<"1", "1", ".">>>>,
      <<"U+2493", <<"1", "2", ".">>>>, <<"U+2494", <<"1", "3", ".">>>>,
      <<"U+2495", <<"1", "4", ".">>>>, <<"U+2496", <<"1", "5", ".">>>>,
      <<"U+2497", <<"1", "6", ".">>>>, <<"U+2498", <<"1", "7", ".">>>>,
      <<"U+2499", <<"1", "8", ".">>>>, <<"U+249A", <<"1", "9", ".">>>>,
      <<"U+249B", <<"2", "0", ".">>>>, <<"U+249C", <<"(", "a", ")">>>>,
      <<"U+249D", <<"(", "b", ")">>>>, <<"U+249E", <<"(", "c", ")">>>>,
      <<"U+249F", <<"(", "d", ")">>>>, <<"U+24A0", <<"(", "e", ")">>>>,
      <<"U+24A1", <<"(", "f", ")">>>>, <<"U+24A2", <<"(", "g", ")">>>>,
      <<"U+24A3", <<"(", "h", ")">>>>, <<"U+24A4", <<"(", "i", ")">>>>,
      <<"U+24A5", <<"(", "j", ")">>>>, <<"U+24A6", <<"(", "k", ")">>>>,
      <<"U+24A7", <<"(", "l", ")">>>>, <<"U+24A8", <<"(", "m", ")">>>>,
      <<"U+24A9", <<"(", "n", ")">>>>, <<"U+24AA", <<"(", "o", ")">>>>,
      <<"U+24AB", <<"(", "p", ")">>>>, <<"U+24AC", <<"(", "q", ")">>>>,
      <<"U+24AD", <<"(", "r", ")">>>>, <<"U+24AE", <<"(", "s", ")">>>>,
      <<"U+24AF", <<"(", "t", ")">>>>, <<"U+24B0", <<"(", "u", ")">>>>,
      <<"U+24B1", <<"(", "v", ")">>>>, <<"U+24B2", <<"(", "w", ")">>>>,
      <<"U+24B3", <<"(", "x", ")">>>>, <<"U+24B4", <<"(", "y", ")">>>>,
      <<"U+24B5", <<"(", "z", ")">>>>, <<"U+24B6", <<"A">>>>,
      <<"U+24B7", <<"B">>>>, <<"U+24B8", <<"C">>>>, <<"U+24B9", <<"D">>>>,
      <<"U+24BA", <<"E">>>>, <<"U+24BB", <<"F">>>>, <<"U+24BC", <<"G">>>>,
      <<"U+24BD", <<"H">>>>, <<"U+24BE", <<"I">>>>, <<"U+24BF", <<"J">>>>,
      <<"U+24C0", <<"K">>>>, <<"U+24C1", <<"L">>>>, <<"U+24C2", <<"M">>>>,
      <<"U+24C3", <<"N">>>>, <<"U+24C4", <<"O">>>>, <<"U+24C5", <<"P">>>>,
      <<"U+24C6", <<"Q">>>>, <<"U+24C7", <<"R">>>>, <<"U+24C8", <<"S">>>>,
      <<"U+24C9", <<"T">>>>, <<"U+24CA", <<"U">>>>, <<"U+24CB", <<"V">>>>,
      <<"U+24CC", <<"W">>>>, <<"U+24CD", <<"X">>>>, <<"U+24CE", <<"Y">>>>,
      <<"U+24CF", <<"Z">>>>, <<"U+24D0", <<"a">>>>, <<"U+24D1", <<"b">>>>,
      <<"U+24D2", <<"c">>>>, <<"U+24D3", <<"d">>>>, <<"U+24D4", <<"e">>>>,
      <<"U+24D5", <<"f">>>>, <<"U+24D6", <<"g">>>>, <<"U+24D7", <<"h">>>>,
      <<"U+24D8", <<"i">>>>, <<"U+24D9", <<"j">>>>, <<"U+24DA", <<"k">>>>,
      <<"U+24DB", <<"l">>>>, <<"U+24DC", <<"m">>>>, <<"U+24DD", <<"n">>>>,
      <<"U+24DE", <<"o">>>>, <<"U+24DF", <<"p">>>>, <<"U+24E0", <<"q">>>>,
      <<"U+24E1", <<"r">>>>, <<"U+24E2", <<"s">>>>, <<"U+24E3", <<"t">>>>,
      <<"U+24E4", <<"u">>>>, <<"U+24E5", <<"v">>>>, <<"U+24E6", <<"w">>>>,
      <<"U+24E7", <<"x">>>>, <<"U+24E8", <<"y">>>>, <<"U+24E9", <<"z">>>>,
      <<"U+24EA", <<"0">>>>,
      <<"U+2A0C", <<"U+222B", "U+222B", "U+222B", "U+222B">>>>,
      <<"U+2A74", <<":", ":", "=">>>>, <<"U+2A75", <<"=", "=">>>>,
      <<"U+2A76", <<"=", "=", "=">>>>, <<"U+2ADC", <<"U+2ADD", "U+0338">>>>,
      <<"U+2C7C", <<"j">>>>, <<"U+2C7D", <<"V">>>>,
      <<"U+2D6F", <<"U+2D61">>>>, <<"U+2E9F", <<"U+6BCD">>>>,
      <<"U+2EF3", <<"U+9F9F">>>>, <<"U+2F00", <<"U+4E00">>>>,
      <<"U+2F01", <<"U+4E28">>>>, <<"U+2F02", <<"U+4E36">>>>,
      <<"U+2F03", <<"U+4E3F">>>>, <<"U+2F04", <<"U+4E59">>>>,
      <<"U+2F05", <<"U+4E85">>>>, <<"U+2F06", <<"U+4E8C">>>>,
      <<"U+2F07", <<"U+4EA0">>>>, <<"U+2F08", <<"U+4EBA">>>>,
      <<"U+2F09", <<"U+513F">>>>, <<"U+2F0A", <<"U+5165">>>>,
      <<"U+2F0B", <<"U+516B">>>>, <<"U+2F0C", <<"U+5182">>>>,
      <<"U+2F0D", <<"U+5196">>>>, <<"U+2F0E", <<"U+51AB">>>>,
      <<"U+2F0F", <<"U+51E0">>>>, <<"U+2F10", <<"U+51F5">>>>,
      <<"U+2F11", <<"U+5200">>>>, <<"U+2F12", <<"U+529B">>>>,
      <<"U+2F13", <<"U+52F9">>>>, <<"U+2F14", <<"U+5315">>>>,
      <<"U+2F15", <<"U+531A">>>>, <<"U+2F16", <<"U+5338">>>>,
      <<"U+2F17", <<"U+5341">>>>, <<"U+2F18", <<"U+535C">>>>,
      <<"U+2F19", <<"U+5369">>>>, <<"U+2F1A", <<"U+5382">>>>,
      <<"U+2F1B", <<"U+53B6">>>>, <<"U+2F1C", <<"U+53C8">>>>,
      <<"U+2F1D", <<"U+53E3">>>>, <<"U+2F1E", <<"U+56D7">>>>,
      <<"U+2F1F", <<"U+571F">>>>, <<"U+2F20", <<"U+58EB">>>>,
      <<"U+2F21", <<"U+5902">>>>, <<"U+2F22", <<"U+590A">>>>,
      <<"U+2F23", <<"U+5915">>>>, <<"U+2F24", <<"U+5927">>>>,
      <<"U+2F25", <<"U+5973">>>>, <<"U+2F26", <<"U+5B50">>>>,
      <<"U+2F27", <<"U+5B80">>>>, <<"U+2F28", <<"U+5BF8">>>>,
      <<"U+2F29", <<"U+5C0F">>>>, <<"U+2F2A", <<"U+5C22">>>>,
      <<"U+2F2B", <<"U+5C38">>>>, <<"U+2F2C", <<"U+5C6E">>>>,
      <<"U+2F2D", <<"U+5C71">>>>, <<"U+2F2E", <<"U+5DDB">>>>,
      <<"U+2F2F", <<"U+5DE5">>>>, <<"U+2F30", <<"U+5DF1">>>>,
      <<"U+2F31", <<"U+5DFE">>>>, <<"U+2F32", <<"U+5E72">>>>,
      <<"U+2F33", <<"U+5E7A">>>>, <<"U+2F34", <<"U+5E7F">>>>,
      <<"U+2F35", <<"U+5EF4">>>>, <<"U+2F36", <<"U+5EFE">>>>,
      <<"U+2F37", <<"U+5F0B">>>>, <<"U+2F38", <<"U+5F13">>>>,
      <<"U+2F39", <<"U+5F50">>>>, <<"U+2F3A", <<"U+5F61">>>>,
      <<"U+2F3B", <<"U+5F73">>>>, <<"U+2F3C", <<"U+5FC3">>>>,
      <<"U+2F3D", <<"U+6208">>>>, <<"U+2F3E", <<"U+6236">>>>,
      <<"U+2F3F", <<"U+624B">>>>, <<"U+2F40", <<"U+652F">>>>,
      <<"U+2F41", <<"U+6534">>>>, <<"U+2F42", <<"U+6587">>>>,
      <<"U+2F43", <<"U+6597">>>>, <<"U+2F44", <<"U+65A4">>>>,
      <<"U+2F45", <<"U+65B9">>>>, <<"U+2F46", <<"U+65E0">>>>,
      <<"U+2F47", <<"U+65E5">>>>, <<"U+2F48", <<"U+66F0">>>>,
      <<"U+2F49", <<"U+6708">>>>, <<"U+2F4A", <<"U+6728">>>>,
      <<"U+2F4B", <<"U+6B20">>>>, <<"U+2F4C", <<"U+6B62">>>>,
      <<"U+2F4D", <<"U+6B79">>>>, <<"U+2F4E", <<"U+6BB3">>>>,
      <<"U+2F4F", <<"U+6BCB">>>>, <<"U+2F50", <<"U+6BD4">>>>,
      <<"U+2F51", <<"U+6BDB">>>>, <<"U+2F52", <<"U+6C0F">>>>,
      <<"U+2F53", <<"U+6C14">>>>, <<"U+2F54", <<"U+6C34">>>>,
      <<"U+2F55", <<"U+706B">>>>, <<"U+2F56", <<"U+722A">>>>,
      <<"U+2F57", <<"U+7236">>>>, <<"U+2F58", <<"U+723B">>>>,
      <<"U+2F59", <<"U+723F">>>>, <<"U+2F5A", <<"U+7247">>>>,
      <<"U+2F5B", <<"U+7259">>>>, <<"U+2F5C", <<"U+725B">>>>,
      <<"U+2F5D", <<"U+72AC">>>>, <<"U+2F5E", <<"U+7384">>>>,
      <<"U+2F5F", <<"U+7389">>>>, <<"U+2F60", <<"U+74DC">>>>,
      <<"U+2F61", <<"U+74E6">>>>, <<"U+2F62", <<"U+7518">>>>,
      <<"U+2F63", <<"U+751F">>>>, <<"U+2F64", <<"U+7528">>>>,
      <<"U+2F65", <<"U+7530">>>>, <<"U+2F66", <<"U+758B">>>>,
      <<"U+2F67", <<"U+7592">>>>, <<"U+2F68", <<"U+7676">>>>,
      <<"U+2F69", <<"U+767D">>>>, <<"U+2F6A", <<"U+76AE">>>>,
      <<"U+2F6B", <<"U+76BF">>>>, <<"U+2F6C", <<"U+76EE">>>>,
      <<"U+2F6D", <<"U+77DB">>>>, <<"U+2F6E", <<"U+77E2">>>>,
      <<"U+2F6F", <<"U+77F3">>>>, <<"U+2F70", <<"U+793A">>>>,
      <<"U+2F71", <<"U+79B8">>>>, <<"U+2F72", <<"U+79BE">>>>,
      <<"U+2F73", <<"U+7A74">>>>, <<"U+2F74", <<"U+7ACB">>>>,
      <<"U+2F75", <<"U+7AF9">>>>, <<"U+2F76", <<"U+7C73">>>>,
      <<"U+2F77", <<"U+7CF8">>>>, <<"U+2F78", <<"U+7F36">>>>,
      <<"U+2F79", <<"U+7F51">>>>, <<"U+2F7A", <<"U+7F8A">>>>,
      <<"U+2F7B", <<"U+7FBD">>>>, <<"U+2F7C", <<"U+8001">>>>,
      <<"U+2F7D", <<"U+800C">>>>, <<"U+2F7E", <<"U+8012">>>>,
      <<"U+2F7F", <<"U+8033">>>>, <<"U+2F80", <<"U+807F">>>>,
      <<"U+2F81", <<"U+8089">>>>, <<"U+2F82", <<"U+81E3">>>>,
      <<"U+2F83", <<"U+81EA">>>>, <<"U+2F84", <<"U+81F3">>>>,
      <<"U+2F85", <<"U+81FC">>>>, <<"U+2F86", <<"U+820C">>>>,
      <<"U+2F87", <<"U+821B">>>>, <<"U+2F88", <<"U+821F">>>>,
      <<"U+2F89", <<"U+826E">>>>, <<"U+2F8A", <<"U+8272">>>>,
      <<"U+2F8B", <<"U+8278">>>>, <<"U+2F8C", <<"U+864D">>>>,
      <<"U+2F8D", <<"U+866B">>>>, <<"U+2F8E", <<"U+8840">>>>,
      <<"U+2F8F", <<"U+884C">>>>, <<"U+2F90", <<"U+8863">>>>,
      <<"U+2F91", <<"U+897E">>>>, <<"U+2F92", <<"U+898B">>>>,
      <<"U+2F93", <<"U+89D2">>>>, <<"U+2F94", <<"U+8A00">>>>,
      <<"U+2F95", <<"U+8C37">>>>, <<"U+2F96", <<"U+8C46">>>>,
      <<"U+2F97", <<"U+8C55">>>>, <<"U+2F98", <<"U+8C78">>>>,
      <<"U+2F99", <<"U+8C9D">>>>, <<"U+2F9A", <<"U+8D64">>>>,
      <<"U+2F9B", <<"U+8D70">>>>, <<"U+2F9C", <<"U+8DB3">>>>,
      <<"U+2F9D", <<"U+8EAB">>>>, <<"U+2F9E", <<"U+8ECA">>>>,
      <<"U+2F9F", <<"U+8F9B">>>>, <<"U+2FA0", <<"U+8FB0">>>>,
      <<"U+2FA1", <<"U+8FB5">>>>, <<"U+2FA2", <<"U+9091">>>>,
      <<"U+2FA3", <<"U+9149">>>>, <<"U+2FA4", <<"U+91C6">>>>,
      <<"U+2FA5", <<"U+91CC">>>>, <<"U+2FA6", <<"U+91D1">>>>,
      <<"U+2FA7", <<"U+9577">>>>, <<"U+2FA8", <<"U+9580">>>>,
      <<"U+2FA9", <<"U+961C">>>>, <<"U+2FAA", <<"U+96B6">>>>,
      <<"U+2FAB", <<"U+96B9">>>>, <<"U+2FAC", <<"U+96E8">>>>,
      <<"U+2FAD", <<"U+9751">>>>, <<"U+2FAE", <<"U+975E">>>>,
      <<"U+2FAF", <<"U+9762">>>>, <<"U+2FB0", <<"U+9769">>>>,
      <<"U+2FB1", <<"U+97CB">>>>, <<"U+2FB2", <<"U+97ED">>>>,
      <<"U+2FB3", <<"U+97F3">>>>, <<"U+2FB4", <<"U+9801">>>>,
      <<"U+2FB5", <<"U+98A8">>>>, <<"U+2FB6", <<"U+98DB">>>>,
      <<"U+2FB7", <<"U+98DF">>>>, <<"U+2FB8", <<"U+9996">>>>,
      <<"U+2FB9", <<"U+9999">>>>, <<"U+2FBA", <<"U+99AC">>>>,
      <<"U+2FBB", <<"U+9AA8">>>>, <<"U+2FBC", <<"U+9AD8">>>>,
      <<"U+2FBD", <<"U+9ADF">>>>, <<"U+2FBE", <<"U+9B25">>>>,
      <<"U+2FBF", <<"U+9B2F">>>>, <<"U+2FC0", <<"U+9B32">>>>,
      <<"U+2FC1", <<"U+9B3C">>>>, <<"U+2FC2", <<"U+9B5A">>>>,
      <<"U+2FC3", <<"U+9CE5">>>>, <<"U+2FC4", <<"U+9E75">>>>,
      <<"U+2FC5", <<"U+9E7F">>>>, <<"U+2FC6", <<"U+9EA5">>>>,
      <<"U+2FC7", <<"U+9EBB">>>>, <<"U+2FC8", <<"U+9EC3">>>>,
      <<"U+2FC9", <<"U+9ECD">>>>, <<"U+2FCA", <<"U+9ED1">>>>,
      <<"U+2FCB", <<"U+9EF9">>>>, <<"U+2FCC", <<"U+9EFD">>>>,
      <<"U+2FCD", <<"U+9F0E">>>>, <<"U+2FCE", <<"U+9F13">>>>,
      <<"U+2FCF", <<"U+9F20">>>>, <<"U+2FD0", <<"U+9F3B">>>>,
      <<"U+2FD1", <<"U+9F4A">>>>, <<"U+2FD2", <<"U+9F52">>>>,
      <<"U+2FD3", <<"U+9F8D">>>>, <<"U+2FD4", <<"U+9F9C">>>>,
      <<"U+2FD5", <<"U+9FA0">>>>, <<"U+3000", <<" ">>>>,
      <<"U+3036", <<"U+3012">>>>, <<"U+3038", <<"U+5341">>>>,
      <<"U+3039", <<"U+5344">>>>, <<"U+303A", <<"U+5345">>>>,
      <<"U+304C", <<"U+304B", "U+3099">>>>,
      <<"U+304E", <<"U+304D", "U+3099">>>>,
      <<"U+3050", <<"U+304F", "U+3099">>>>,
      <<"U+3052", <<"U+3051", "U+3099">>>>,
      <<"U+3054", <<"U+3053", "U+3099">>>>,
      <<"U+3056", <<"U+3055", "U+3099">>>>,
      <<"U+3058", <<"U+3057", "U+3099">>>>,
      <<"U+305A", <<"U+3059", "U+3099">>>>,
      <<"U+305C", <<"U+305B", "U+3099">>>>,
      <<"U+305E", <<"U+305D", "U+3099">>>>,
      <<"U+3060", <<"U+305F", "U+3099">>>>,
      <<"U+3062", <<"U+3061", "U+3099">>>>,
      <<"U+3065", <<"U+3064", "U+3099">>>>,
      <<"U+3067", <<"U+3066", "U+3099">>>>,
      <<"U+3069", <<"U+3068", "U+3099">>>>,
      <<"U+3070", <<"U+306F", "U+3099">>>>,
      <<"U+3071", <<"U+306F", "U+309A">>>>,
      <<"U+3073", <<"U+3072", "U+3099">>>>,
      <<"U+3074", <<"U+3072", "U+309A">>>>,
      <<"U+3076", <<"U+3075", "U+3099">>>>,
      <<"U+3077", <<"U+3075", "U+309A">>>>,
      <<"U+3079", <<"U+3078", "U+3099">>>>,
      <<"U+307A", <<"U+3078", "U+309A">>>>,
      <<"U+307C", <<"U+307B", "U+3099">>>>,
      <<"U+307D", <<"U+307B", "U+309A">>>>,
      <<"U+3094", <<"U+3046", "U+3099">>>>, <<"U+309B", <<" ", "U+3099">>>>,
      <<"U+309C", <<" ", "U+309A">>>>, <<"U+309E", <<"U+309D", "U+3099">>>>,
      <<"U+309F", <<"U+3088", "U+308A">>>>,
      <<"U+30AC", <<"U+30AB", "U+3099">>>>,
      <<"U+30AE", <<"U+30AD", "U+3099">>>>,
      <<"U+30B0", <<"U+30AF", "U+3099">>>>,
      <<"U+30B2", <<"U+30B1", "U+3099">>>>,
      <<"U+30B4", <<"U+30B3", "U+3099">>>>,
      <<"U+30B6", <<"U+30B5", "U+3099">>>>,
      <<"U+30B8", <<"U+30B7", "U+3099">>>>,
      <<"U+30BA", <<"U+30B9", "U+3099">>>>,
      <<"U+30BC", <<"U+30BB", "U+3099">>>>,
      <<"U+30BE", <<"U+30BD", "U+3099">>>>,
      <<"U+30C0", <<"U+30BF", "U+3099">>>>,
      <<"U+30C2", <<"U+30C1", "U+3099">>>>,
      <<"U+30C5", <<"U+30C4", "U+3099">>>>,
      <<"U+30C7", <<"U+30C6", "U+3099">>>>,
      <<"U+30C9", <<"U+30C8", "U+3099">>>>,
      <<"U+30D0", <<"U+30CF", "U+3099">>>>,
      <<"U+30D1", <<"U+30CF", "U+309A">>>>,
      <<"U+30D3", <<"U+30D2", "U+3099">>>>,
      <<"U+30D4", <<"U+30D2", "U+309A">>>>,
      <<"U+30D6", <<"U+30D5", "U+3099">>>>,
      <<"U+30D7", <<"U+30D5", "U+309A">>>>,
      <<"U+30D9", <<"U+30D8", "U+3099">>>>,
      <<"U+30DA", <<"U+30D8", "U+309A">>>>,
      <<"U+30DC", <<"U+30DB", "U+3099">>>>,
      <<"U+30DD", <<"U+30DB", "U+309A">>>>,
      <<"U+30F4", <<"U+30A6", "U+3099">>>>,
      <<"U+30F7", <<"U+30EF", "U+3099">>>>,
      <<"U+30F8", <<"U+30F0", "U+3099">>>>,
      <<"U+30F9", <<"U+30F1", "U+3099">>>>,
      <<"U+30FA", <<"U+30F2", "U+3099">>>>,
      <<"U+30FE", <<"U+30FD", "U+3099">>>>,
      <<"U+30FF", <<"U+30B3", "U+30C8">>>>, <<"U+3131", <<"U+1100">>>>,
      <<"U+3132", <<"U+1101">>>>, <<"U+3133", <<"U+11AA">>>>,
      <<"U+3134", <<"U+1102">>>>, <<"U+3135", <<"U+11AC">>>>,
      <<"U+3136", <<"U+11AD">>>>, <<"U+3137", <<"U+1103">>>>,
      <<"U+3138", <<"U+1104">>>>, <<"U+3139", <<"U+1105">>>>,
      <<"U+313A", <<"U+11B0">>>>, <<"U+313B", <<"U+11B1">>>>,
      <<"U+313C", <<"U+11B2">>>>, <<"U+313D", <<"U+11B3">>>>,
      <<"U+313E", <<"U+11B4">>>>, <<"U+313F", <<"U+11B5">>>>,
      <<"U+3140", <<"U+111A">>>>, <<"U+3141", <<"U+1106">>>>,
      <<"U+3142", <<"U+1107">>>>, <<"U+3143", <<"U+1108">>>>,
      <<"U+3144", <<"U+1121">>>>, <<"U+3145", <<"U+1109">>>>,
      <<"U+3146", <<"U+110A">>>>, <<"U+3147", <<"U+110B">>>>,
      <<"U+3148", <<"U+110C">>>>, <<"U+3149", <<"U+110D">>>>,
      <<"U+314A", <<"U+110E">>>>, <<"U+314B", <<"U+110F">>>>,
      <<"U+314C", <<"U+1110">>>>, <<"U+314D", <<"U+1111">>>>,
      <<"U+314E", <<"U+1112">>>>, <<"U+314F", <<"U+1161">>>>,
      <<"U+3150", <<"U+1162">>>>, <<"U+3151", <<"U+1163">>>>,
      <<"U+3152", <<"U+1164">>>>, <<"U+3153", <<"U+1165">>>>,
      <<"U+3154", <<"U+1166">>>>, <<"U+3155", <<"U+1167">>>>,
      <<"U+3156", <<"U+1168">>>>, <<"U+3157", <<"U+1169">>>>,
      <<"U+3158", <<"U+116A">>>>, <<"U+3159", <<"U+116B">>>>,
      <<"U+315A", <<"U+116C">>>>, <<"U+315B", <<"U+116D">>>>,
      <<"U+315C", <<"U+116E">>>>, <<"U+315D", <<"U+116F">>>>,
      <<"U+315E", <<"U+1170">>>>, <<"U+315F", <<"U+1171">>>>,
      <<"U+3160", <<"U+1172">>>>, <<"U+3161", <<"U+1173">>>>,
      <<"U+3162", <<"U+1174">>>>, <<"U+3163", <<"U+1175">>>>,
      <<"U+3164", <<"U+1160">>>>, <<"U+3165", <<"U+1114">>>>,
      <<"U+3166", <<"U+1115">>>>, <<"U+3167", <<"U+11C7">>>>,
      <<"U+3168", <<"U+11C8">>>>, <<"U+3169", <<"U+11CC">>>>,
      <<"U+316A", <<"U+11CE">>>>, <<"U+316B", <<"U+11D3">>>>,
      <<"U+316C", <<"U+11D7">>>>, <<"U+316D", <<"U+11D9">>>>,
      <<"U+316E", <<"U+111C">>>>, <<"U+316F", <<"U+11DD">>>>,
      <<"U+3170", <<"U+11DF">>>>, <<"U+3171", <<"U+111D">>>>,
      <<"U+3172", <<"U+111E">>>>, <<"U+3173", <<"U+1120">>>>,
      <<"U+3174", <<"U+1122">>>>, <<"U+3175", <<"U+1123">>>>,
      <<"U+3176", <<"U+1127">>>>, <<"U+3177", <<"U+1129">>>>,
      <<"U+3178", <<"U+112B">>>>, <<"U+3179", <<"U+112C">>>>,
      <<"U+317A", <<"U+112D">>>>, <<"U+317B", <<"U+112E">>>>,
      <<"U+317C", <<"U+112F">>>>, <<"U+317D", <<"U+1132">>>>,
      <<"U+317E", <<"U+1136">>>>, <<"U+317F", <<"U+1140">>>>,
      <<"U+3180", <<"U+1147">>>>, <<"U+3181", <<"U+114C">>>>,
      <<"U+3182", <<"U+11F1">>>>, <<"U+3183", <<"U+11F2">>>>,
      <<"U+3184", <<"U+1157">>>>, <<"U+3185", <<"U+1158">>>>,
      <<"U+3186", <<"U+1159">>>>, <<"U+3187", <<"U+1184">>>>,
      <<"U+3188", <<"U+1185">>>>, <<"U+3189", <<"U+1188">>>>,
      <<"U+318A", <<"U+1191">>>>, <<"U+318B", <<"U+1192">>>>,
      <<"U+318C", <<"U+1194">>>>, <<"U+318D", <<"U+119E">>>>,
      <<"U+318E", <<"U+11A1">>>>, <<"U+3192", <<"U+4E00">>>>,
      <<"U+3193", <<"U+4E8C">>>>, <<"U+3194", <<"U+4E09">>>>,
      <<"U+3195", <<"U+56DB">>>>, <<"U+3196", <<"U+4E0A">>>>,
      <<"U+3197", <<"U+4E2D">>>>, <<"U+3198", <<"U+4E0B">>>>,
      <<"U+3199", <<"U+7532">>>>, <<"U+319A", <<"U+4E59">>>>,
      <<"U+319B", <<"U+4E19">>>>, <<"U+319C", <<"U+4E01">>>>,
      <<"U+319D", <<"U+5929">>>>, <<"U+319E", <<"U+5730">>>>,
      <<"U+319F", <<"U+4EBA">>>>, <<"U+3200", <<"(", "U+1100", ")">>>>,
      <<"U+3201", <<"(", "U+1102", ")">>>>,
      <<"U+3202", <<"(", "U+1103", ")">>>>,
      <<"U+3203", <<"(", "U+1105", ")">>>>,
      <<"U+3204", <<"(", "U+1106", ")">>>>,
      <<"U+3205", <<"(", "U+1107", ")">>>>,
      <<"U+3206", <<"(", "U+1109", ")">>>>,
      <<"U+3207", <<"(", "U+110B", ")">>>>,
      <<"U+3208", <<"(", "U+110C", ")">>>>,
      <<"U+3209", <<"(", "U+110E", ")">>>>,
      <<"U+320A", <<"(", "U+110F", ")">>>>,
      <<"U+320B", <<"(", "U+1110", ")">>>>,
      <<"U+320C", <<"(", "U+1111", ")">>>>,
      <<"U+320D", <<"(", "U+1112", ")">>>>,
      <<"U+320E", <<"(", "U+1100", "U+1161", ")">>>>,
      <<"U+320F", <<"(", "U+1102", "U+1161", ")">>>>,
      <<"U+3210", <<"(", "U+1103", "U+1161", ")">>>>,
      <<"U+3211", <<"(", "U+1105", "U+1161", ")">>>>,
      <<"U+3212", <<"(", "U+1106", "U+1161", ")">>>>,
      <<"U+3213", <<"(", "U+1107", "U+1161", ")">>>>,
      <<"U+3214", <<"(", "U+1109", "U+1161", ")">>>>,
      <<"U+3215", <<"(", "U+110B", "U+1161", ")">>>>,
      <<"U+3216", <<"(", "U+110C", "U+1161", ")">>>>,
      <<"U+3217", <<"(", "U+110E", "U+1161", ")">>>>,
      <<"U+3218", <<"(", "U+110F", "U+1161", ")">>>>,
      <<"U+3219", <<"(", "U+1110", "U+1161", ")">>>>,
      <<"U+321A", <<"(", "U+1111", "U+1161", ")">>>>,
      <<"U+321B", <<"(", "U+1112", "U+1161", ")">>>>,
      <<"U+321C", <<"(", "U+110C", "U+116E", ")">>>>,
      <<"U+321D", <<"(", "U+110B", "U+1169", "U+110C", "U+1165", "U+11AB", ")">>>>,
      <<"U+321E", <<"(", "U+110B", "U+1169", "U+1112", "U+116E", ")">>>>,
      <<"U+3220", <<"(", "U+4E00", ")">>>>,
      <<"U+3221", <<"(", "U+4E8C", ")">>>>,
      <<"U+3222", <<"(", "U+4E09", ")">>>>,
      <<"U+3223", <<"(", "U+56DB", ")">>>>,
      <<"U+3224", <<"(", "U+4E94", ")">>>>,
      <<"U+3225", <<"(", "U+516D", ")">>>>,
      <<"U+3226", <<"(", "U+4E03", ")">>>>,
      <<"U+3227", <<"(", "U+516B", ")">>>>,
      <<"U+3228", <<"(", "U+4E5D", ")">>>>,
      <<"U+3229", <<"(", "U+5341", ")">>>>,
      <<"U+322A", <<"(", "U+6708", ")">>>>,
      <<"U+322B", <<"(", "U+706B", ")">>>>,
      <<"U+322C", <<"(", "U+6C34", ")">>>>,
      <<"U+322D", <<"(", "U+6728", ")">>>>,
      <<"U+322E", <<"(", "U+91D1", ")">>>>,
      <<"U+322F", <<"(", "U+571F", ")">>>>,
      <<"U+3230", <<"(", "U+65E5", ")">>>>,
      <<"U+3231", <<"(", "U+682A", ")">>>>,
      <<"U+3232", <<"(", "U+6709", ")">>>>,
      <<"U+3233", <<"(", "U+793E", ")">>>>,
      <<"U+3234", <<"(", "U+540D", ")">>>>,
      <<"U+3235", <<"(", "U+7279", ")">>>>,
      <<"U+3236", <<"(", "U+8CA1", ")">>>>,
      <<"U+3237", <<"(", "U+795D", ")">>>>,
      <<"U+3238", <<"(", "U+52B4", ")">>>>,
      <<"U+3239", <<"(", "U+4EE3", ")">>>>,
      <<"U+323A", <<"(", "U+547C", ")">>>>,
      <<"U+323B", <<"(", "U+5B66", ")">>>>,
      <<"U+323C", <<"(", "U+76E3", ")">>>>,
      <<"U+323D", <<"(", "U+4F01", ")">>>>,
      <<"U+323E", <<"(", "U+8CC7", ")">>>>,
      <<"U+323F", <<"(", "U+5354", ")">>>>,
      <<"U+3240", <<"(", "U+796D", ")">>>>,
      <<"U+3241", <<"(", "U+4F11", ")">>>>,
      <<"U+3242", <<"(", "U+81EA", ")">>>>,
      <<"U+3243", <<"(", "U+81F3", ")">>>>, <<"U+3244", <<"U+554F">>>>,
      <<"U+3245", <<"U+5E7C">>>>, <<"U+3246", <<"U+6587">>>>,
      <<"U+3247", <<"U+7B8F">>>>, <<"U+3250", <<"P", "T", "E">>>>,
      <<"U+3251", <<"2", "1">>>>, <<"U+3252", <<"2", "2">>>>,
      <<"U+3253", <<"2", "3">>>>, <<"U+3254", <<"2", "4">>>>,
      <<"U+3255", <<"2", "5">>>>, <<"U+3256", <<"2", "6">>>>,
      <<"U+3257", <<"2", "7">>>>, <<"U+3258", <<"2", "8">>>>,
      <<"U+3259", <<"2", "9">>>>, <<"U+325A", <<"3", "0">>>>,
      <<"U+325B", <<"3", "1">>>>, <<"U+325C", <<"3", "2">>>>,
      <<"U+325D", <<"3", "3">>>>, <<"U+325E", <<"3", "4">>>>,
      <<"U+325F", <<"3", "5">>>>, <<"U+3260", <<"U+1100">>>>,
      <<"U+3261", <<"U+1102">>>>, <<"U+3262", <<"U+1103">>>>,
      <<"U+3263", <<"U+1105">>>>, <<"U+3264", <<"U+1106">>>>,
      <<"U+3265", <<"U+1107">>>>, <<"U+3266", <<"U+1109">>>>,
      <<"U+3267", <<"U+110B">>>>, <<"U+3268", <<"U+110C">>>>,
      <<"U+3269", <<"U+110E">>>>, <<"U+326A", <<"U+110F">>>>,
      <<"U+326B", <<"U+1110">>>>, <<"U+326C", <<"U+1111">>>>,
      <<"U+326D", <<"U+1112">>>>, <<"U+326E", <<"U+1100", "U+1161">>>>,
      <<"U+326F", <<"U+1102", "U+1161">>>>,
      <<"U+3270", <<"U+1103", "U+1161">>>>,
      <<"U+3271", <<"U+1105", "U+1161">>>>,
      <<"U+3272", <<"U+1106", "U+1161">>>>,
      <<"U+3273", <<"U+1107", "U+1161">>>>,
      <<"U+3274", <<"U+1109", "U+1161">>>>,
      <<"U+3275", <<"U+110B", "U+1161">>>>,
      <<"U+3276", <<"U+110C", "U+1161">>>>,
      <<"U+3277", <<"U+110E", "U+1161">>>>,
      <<"U+3278", <<"U+110F", "U+1161">>>>,
      <<"U+3279", <<"U+1110", "U+1161">>>>,
      <<"U+327A", <<"U+1111", "U+1161">>>>,
      <<"U+327B", <<"U+1112", "U+1161">>>>,
      <<"U+327C", <<"U+110E", "U+1161", "U+11B7", "U+1100", "U+1169">>>>,
      <<"U+327D", <<"U+110C", "U+116E", "U+110B", "U+1174">>>>,
      <<"U+327E", <<"U+110B", "U+116E">>>>, <<"U+3280", <<"U+4E00">>>>,
      <<"U+3281", <<"U+4E8C">>>>, <<"U+3282", <<"U+4E09">>>>,
      <<"U+3283", <<"U+56DB">>>>, <<"U+3284", <<"U+4E94">>>>,
      <<"U+3285", <<"U+516D">>>>, <<"U+3286", <<"U+4E03">>>>,
      <<"U+3287", <<"U+516B">>>>, <<"U+3288", <<"U+4E5D">>>>,
      <<"U+3289", <<"U+5341">>>>, <<"U+328A", <<"U+6708">>>>,
      <<"U+328B", <<"U+706B">>>>, <<"U+328C", <<"U+6C34">>>>,
      <<"U+328D", <<"U+6728">>>>, <<"U+328E", <<"U+91D1">>>>,
      <<"U+328F", <<"U+571F">>>>, <<"U+3290", <<"U+65E5">>>>,
      <<"U+3291", <<"U+682A">>>>, <<"U+3292", <<"U+6709">>>>,
      <<"U+3293", <<"U+793E">>>>, <<"U+3294", <<"U+540D">>>>,
      <<"U+3295", <<"U+7279">>>>, <<"U+3296", <<"U+8CA1">>>>,
      <<"U+3297", <<"U+795D">>>>, <<"U+3298", <<"U+52B4">>>>,
      <<"U+3299", <<"U+79D8">>>>, <<"U+329A", <<"U+7537">>>>,
      <<"U+329B", <<"U+5973">>>>, <<"U+329C", <<"U+9069">>>>,
      <<"U+329D", <<"U+512A">>>>, <<"U+329E", <<"U+5370">>>>,
      <<"U+329F", <<"U+6CE8">>>>, <<"U+32A0", <<"U+9805">>>>,
      <<"U+32A1", <<"U+4F11">>>>, <<"U+32A2", <<"U+5199">>>>,
      <<"U+32A3", <<"U+6B63">>>>, <<"U+32A4", <<"U+4E0A">>>>,
      <<"U+32A5", <<"U+4E2D">>>>, <<"U+32A6", <<"U+4E0B">>>>,
      <<"U+32A7", <<"U+5DE6">>>>, <<"U+32A8", <<"U+53F3">>>>,
      <<"U+32A9", <<"U+533B">>>>, <<"U+32AA", <<"U+5B97">>>>,
      <<"U+32AB", <<"U+5B66">>>>, <<"U+32AC", <<"U+76E3">>>>,
      <<"U+32AD", <<"U+4F01">>>>, <<"U+32AE", <<"U+8CC7">>>>,
      <<"U+32AF", <<"U+5354">>>>, <<"U+32B0", <<"U+591C">>>>,
      <<"U+32B1", <<"3", "6">>>>, <<"U+32B2", <<"3", "7">>>>,
      <<"U+32B3", <<"3", "8">>>>, <<"U+32B4", <<"3", "9">>>>,
      <<"U+32B5", <<"4", "0">>>>, <<"U+32B6", <<"4", "1">>>>,
      <<"U+32B7", <<"4", "2">>>>, <<"U+32B8", <<"4", "3">>>>,
      <<"U+32B9", <<"4", "4">>>>, <<"U+32BA", <<"4", "5">>>>,
      <<"U+32BB", <<"4", "6">>>>, <<"U+32BC", <<"4", "7">>>>,
      <<"U+32BD", <<"4", "8">>>>, <<"U+32BE", <<"4", "9">>>>,
      <<"U+32BF", <<"5", "0">>>>, <<"U+32C0", <<"1", "U+6708">>>>,
      <<"U+32C1", <<"2", "U+6708">>>>, <<"U+32C2", <<"3", "U+6708">>>>,
      <<"U+32C3", <<"4", "U+6708">>>>, <<"U+32C4", <<"5", "U+6708">>>>,
      <<"U+32C5", <<"6", "U+6708">>>>, <<"U+32C6", <<"7", "U+6708">>>>,
      <<"U+32C7", <<"8", "U+6708">>>>, <<"U+32C8", <<"9", "U+6708">>>>,
      <<"U+32C9", <<"1", "0", "U+6708">>>>,
      <<"U+32CA", <<"1", "1", "U+6708">>>>,
      <<"U+32CB", <<"1", "2", "U+6708">>>>, <<"U+32CC", <<"H", "g">>>>,
      <<"U+32CD", <<"e", "r", "g">>>>, <<"U+32CE", <<"e", "V">>>>,
      <<"U+32CF", <<"L", "T", "D">>>>, <<"U+32D0", <<"U+30A2">>>>,
      <<"U+32D1", <<"U+30A4">>>>, <<"U+32D2", <<"U+30A6">>>>,
      <<"U+32D3", <<"U+30A8">>>>, <<"U+32D4", <<"U+30AA">>>>,
      <<"U+32D5", <<"U+30AB">>>>, <<"U+32D6", <<"U+30AD">>>>,
      <<"U+32D7", <<"U+30AF">>>>, <<"U+32D8", <<"U+30B1">>>>,
      <<"U+32D9", <<"U+30B3">>>>, <<"U+32DA", <<"U+30B5">>>>,
      <<"U+32DB", <<"U+30B7">>>>, <<"U+32DC", <<"U+30B9">>>>,
      <<"U+32DD", <<"U+30BB">>>>, <<"U+32DE", <<"U+30BD">>>>,
      <<"U+32DF", <<"U+30BF">>>>, <<"U+32E0", <<"U+30C1">>>>,
      <<"U+32E1", <<"U+30C4">>>>, <<"U+32E2", <<"U+30C6">>>>,
      <<"U+32E3", <<"U+30C8">>>>, <<"U+32E4", <<"U+30CA">>>>,
      <<"U+32E5", <<"U+30CB">>>>, <<"U+32E6", <<"U+30CC">>>>,
      <<"U+32E7", <<"U+30CD">>>>, <<"U+32E8", <<"U+30CE">>>>,
      <<"U+32E9", <<"U+30CF">>>>, <<"U+32EA", <<"U+30D2">>>>,
      <<"U+32EB", <<"U+30D5">>>>, <<"U+32EC", <<"U+30D8">>>>,
      <<"U+32ED", <<"U+30DB">>>>, <<"U+32EE", <<"U+30DE">>>>,
      <<"U+32EF", <<"U+30DF">>>>, <<"U+32F0", <<"U+30E0">>>>,
      <<"U+32F1", <<"U+30E1">>>>, <<"U+32F2", <<"U+30E2">>>>,
      <<"U+32F3", <<"U+30E4">>>>, <<"U+32F4", <<"U+30E6">>>>,
      <<"U+32F5", <<"U+30E8">>>>, <<"U+32F6", <<"U+30E9">>>>,
      <<"U+32F7", <<"U+30EA">>>>, <<"U+32F8", <<"U+30EB">>>>,
      <<"U+32F9", <<"U+30EC">>>>, <<"U+32FA", <<"U+30ED">>>>,
      <<"U+32FB", <<"U+30EF">>>>, <<"U+32FC", <<"U+30F0">>>>,
      <<"U+32FD", <<"U+30F1">>>>, <<"U+32FE", <<"U+30F2">>>>,
      <<"U+32FF", <<"U+4EE4", "U+548C">>>>,
      <<"U+3300", <<"U+30A2", "U+30CF", "U+309A", "U+30FC", "U+30C8">>>>,
      <<"U+3301", <<"U+30A2", "U+30EB", "U+30D5", "U+30A1">>>>,
      <<"U+3302", <<"U+30A2", "U+30F3", "U+30D8", "U+309A", "U+30A2">>>>,
      <<"U+3303", <<"U+30A2", "U+30FC", "U+30EB">>>>,
      <<"U+3304", <<"U+30A4", "U+30CB", "U+30F3", "U+30AF", "U+3099">>>>,
      <<"U+3305", <<"U+30A4", "U+30F3", "U+30C1">>>>,
      <<"U+3306", <<"U+30A6", "U+30A9", "U+30F3">>>>,
      <<"U+3307", <<"U+30A8", "U+30B9", "U+30AF", "U+30FC", "U+30C8", "U+3099">>>>,
      <<"U+3308", <<"U+30A8", "U+30FC", "U+30AB", "U+30FC">>>>,
      <<"U+3309", <<"U+30AA", "U+30F3", "U+30B9">>>>,
      <<"U+330A", <<"U+30AA", "U+30FC", "U+30E0">>>>,
      <<"U+330B", <<"U+30AB", "U+30A4", "U+30EA">>>>,
      <<"U+330C", <<"U+30AB", "U+30E9", "U+30C3", "U+30C8">>>>,
      <<"U+330D", <<"U+30AB", "U+30ED", "U+30EA", "U+30FC">>>>,
      <<"U+330E", <<"U+30AB", "U+3099", "U+30ED", "U+30F3">>>>,
      <<"U+330F", <<"U+30AB", "U+3099", "U+30F3", "U+30DE">>>>,
      <<"U+3310", <<"U+30AD", "U+3099", "U+30AB", "U+3099">>>>,
      <<"U+3311", <<"U+30AD", "U+3099", "U+30CB", "U+30FC">>>>,
      <<"U+3312", <<"U+30AD", "U+30E5", "U+30EA", "U+30FC">>>>,
      <<"U+3313", <<"U+30AD", "U+3099", "U+30EB", "U+30BF", "U+3099", "U+30FC">>>>,
      <<"U+3314", <<"U+30AD", "U+30ED">>>>,
      <<"U+3315", <<"U+30AD", "U+30ED", "U+30AF", "U+3099", "U+30E9", "U+30E0">>>>,
      <<"U+3316", <<"U+30AD", "U+30ED", "U+30E1", "U+30FC", "U+30C8", "U+30EB">>>>,
      <<"U+3317", <<"U+30AD", "U+30ED", "U+30EF", "U+30C3", "U+30C8">>>>,
      <<"U+3318", <<"U+30AF", "U+3099", "U+30E9", "U+30E0">>>>,
      <<"U+3319", <<"U+30AF", "U+3099", "U+30E9", "U+30E0", "U+30C8", "U+30F3">>>>,
      <<"U+331A", <<"U+30AF", "U+30EB", "U+30BB", "U+3099", "U+30A4", "U+30ED">>>>,
      <<"U+331B", <<"U+30AF", "U+30ED", "U+30FC", "U+30CD">>>>,
      <<"U+331C", <<"U+30B1", "U+30FC", "U+30B9">>>>,
      <<"U+331D", <<"U+30B3", "U+30EB", "U+30CA">>>>,
      <<"U+331E", <<"U+30B3", "U+30FC", "U+30DB", "U+309A">>>>,
      <<"U+331F", <<"U+30B5", "U+30A4", "U+30AF", "U+30EB">>>>,
      <<"U+3320", <<"U+30B5", "U+30F3", "U+30C1", "U+30FC", "U+30E0">>>>,
      <<"U+3321", <<"U+30B7", "U+30EA", "U+30F3", "U+30AF", "U+3099">>>>,
      <<"U+3322", <<"U+30BB", "U+30F3", "U+30C1">>>>,
      <<"U+3323", <<"U+30BB", "U+30F3", "U+30C8">>>>,
      <<"U+3324", <<"U+30BF", "U+3099", "U+30FC", "U+30B9">>>>,
      <<"U+3325", <<"U+30C6", "U+3099", "U+30B7">>>>,
      <<"U+3326", <<"U+30C8", "U+3099", "U+30EB">>>>,
      <<"U+3327", <<"U+30C8", "U+30F3">>>>,
      <<"U+3328", <<"U+30CA", "U+30CE">>>>,
      <<"U+3329", <<"U+30CE", "U+30C3", "U+30C8">>>>,
      <<"U+332A", <<"U+30CF", "U+30A4", "U+30C4">>>>,
      <<"U+332B", <<"U+30CF", "U+309A", "U+30FC", "U+30BB", "U+30F3", "U+30C8">>>>,
      <<"U+332C", <<"U+30CF", "U+309A", "U+30FC", "U+30C4">>>>,
      <<"U+332D", <<"U+30CF", "U+3099", "U+30FC", "U+30EC", "U+30EB">>>>,
      <<"U+332E", <<"U+30D2", "U+309A", "U+30A2", "U+30B9", "U+30C8", "U+30EB">>>>,
      <<"U+332F", <<"U+30D2", "U+309A", "U+30AF", "U+30EB">>>>,
      <<"U+3330", <<"U+30D2", "U+309A", "U+30B3">>>>,
      <<"U+3331", <<"U+30D2", "U+3099", "U+30EB">>>>,
      <<"U+3332", <<"U+30D5", "U+30A1", "U+30E9", "U+30C3", "U+30C8", "U+3099">>>>,
      <<"U+3333", <<"U+30D5", "U+30A3", "U+30FC", "U+30C8">>>>,
      <<"U+3334", <<"U+30D5", "U+3099", "U+30C3", "U+30B7", "U+30A7", "U+30EB">>>>,
      <<"U+3335", <<"U+30D5", "U+30E9", "U+30F3">>>>,
      <<"U+3336", <<"U+30D8", "U+30AF", "U+30BF", "U+30FC", "U+30EB">>>>,
      <<"U+3337", <<"U+30D8", "U+309A", "U+30BD">>>>,
      <<"U+3338", <<"U+30D8", "U+309A", "U+30CB", "U+30D2">>>>,
      <<"U+3339", <<"U+30D8", "U+30EB", "U+30C4">>>>,
      <<"U+333A", <<"U+30D8", "U+309A", "U+30F3", "U+30B9">>>>,
      <<"U+333B", <<"U+30D8", "U+309A", "U+30FC", "U+30B7", "U+3099">>>>,
      <<"U+333C", <<"U+30D8", "U+3099", "U+30FC", "U+30BF">>>>,
      <<"U+333D", <<"U+30DB", "U+309A", "U+30A4", "U+30F3", "U+30C8">>>>,
      <<"U+333E", <<"U+30DB", "U+3099", "U+30EB", "U+30C8">>>>,
      <<"U+333F", <<"U+30DB", "U+30F3">>>>,
      <<"U+3340", <<"U+30DB", "U+309A", "U+30F3", "U+30C8", "U+3099">>>>,
      <<"U+3341", <<"U+30DB", "U+30FC", "U+30EB">>>>,
      <<"U+3342", <<"U+30DB", "U+30FC", "U+30F3">>>>,
      <<"U+3343", <<"U+30DE", "U+30A4", "U+30AF", "U+30ED">>>>,
      <<"U+3344", <<"U+30DE", "U+30A4", "U+30EB">>>>,
      <<"U+3345", <<"U+30DE", "U+30C3", "U+30CF">>>>,
      <<"U+3346", <<"U+30DE", "U+30EB", "U+30AF">>>>,
      <<"U+3347", <<"U+30DE", "U+30F3", "U+30B7", "U+30E7", "U+30F3">>>>,
      <<"U+3348", <<"U+30DF", "U+30AF", "U+30ED", "U+30F3">>>>,
      <<"U+3349", <<"U+30DF", "U+30EA">>>>,
      <<"U+334A", <<"U+30DF", "U+30EA", "U+30CF", "U+3099", "U+30FC", "U+30EB">>>>,
      <<"U+334B", <<"U+30E1", "U+30AB", "U+3099">>>>,
      <<"U+334C", <<"U+30E1", "U+30AB", "U+3099", "U+30C8", "U+30F3">>>>,
      <<"U+334D", <<"U+30E1", "U+30FC", "U+30C8", "U+30EB">>>>,
      <<"U+334E", <<"U+30E4", "U+30FC", "U+30C8", "U+3099">>>>,
      <<"U+334F", <<"U+30E4", "U+30FC", "U+30EB">>>>,
      <<"U+3350", <<"U+30E6", "U+30A2", "U+30F3">>>>,
      <<"U+3351", <<"U+30EA", "U+30C3", "U+30C8", "U+30EB">>>>,
      <<"U+3352", <<"U+30EA", "U+30E9">>>>,
      <<"U+3353", <<"U+30EB", "U+30D2", "U+309A", "U+30FC">>>>,
      <<"U+3354", <<"U+30EB", "U+30FC", "U+30D5", "U+3099", "U+30EB">>>>,
      <<"U+3355", <<"U+30EC", "U+30E0">>>>,
      <<"U+3356", <<"U+30EC", "U+30F3", "U+30C8", "U+30B1", "U+3099", "U+30F3">>>>,
      <<"U+3357", <<"U+30EF", "U+30C3", "U+30C8">>>>,
      <<"U+3358", <<"0", "U+70B9">>>>, <<"U+3359", <<"1", "U+70B9">>>>,
      <<"U+335A", <<"2", "U+70B9">>>>, <<"U+335B", <<"3", "U+70B9">>>>,
      <<"U+335C", <<"4", "U+70B9">>>>, <<"U+335D", <<"5", "U+70B9">>>>,
      <<"U+335E", <<"6", "U+70B9">>>>, <<"U+335F", <<"7", "U+70B9">>>>,
      <<"U+3360", <<"8", "U+70B9">>>>, <<"U+3361", <<"9", "U+70B9">>>>,
      <<"U+3362", <<"1", "0", "U+70B9">>>>,
      <<"U+3363", <<"1", "1", "U+70B9">>>>,
      <<"U+3364", <<"1", "2", "U+70B9">>>>,
      <<"U+3365", <<"1", "3", "U+70B9">>>>,
      <<"U+3366", <<"1", "4", "U+70B9">>>>,
      <<"U+3367", <<"1", "5", "U+70B9">>>>,
      <<"U+3368", <<"1", "6", "U+70B9">>>>,
      <<"U+3369", <<"1", "7", "U+70B9">>>>,
      <<"U+336A", <<"1", "8", "U+70B9">>>>,
      <<"U+336B", <<"1", "9", "U+70B9">>>>,
      <<"U+336C", <<"2", "0", "U+70B9">>>>,
      <<"U+336D", <<"2", "1", "U+70B9">>>>,
      <<"U+336E", <<"2", "2", "U+70B9">>>>,
      <<"U+336F", <<"2", "3", "U+70B9">>>>,
      <<"U+3370", <<"2", "4", "U+70B9">>>>, <<"U+3371", <<"h", "P", "a">>>>,
      <<"U+3372", <<"d", "a">>>>, <<"U+3373", <<"A", "U">>>>,
      <<"U+3374", <<"b", "a", "r">>>>, <<"U+3375", <<"o", "V">>>>,
      <<"U+3376", <<"p", "c">>>>, <<"U+3377", <<"d", "m">>>>,
      <<"U+3378", <<"d", "m", "2">>>>, <<"U+3379", <<"d", "m", "3">>>>,
      <<"U+337A", <<"I", "U">>>>, <<"U+337B", <<"U+5E73", "U+6210">>>>,
      <<"U+337C", <<"U+662D", "U+548C">>>>,
      <<"U+337D", <<"U+5927", "U+6B63">>>>,
      <<"U+337E", <<"U+660E", "U+6CBB">>>>,
      <<"U+337F", <<"U+682A", "U+5F0F", "U+4F1A", "U+793E">>>>,
      <<"U+3380", <<"p", "A">>>>, <<"U+3381", <<"n", "A">>>>,
      <<"U+3382", <<"U+03BC", "A">>>>, <<"U+3383", <<"m", "A">>>>,
      <<"U+3384", <<"k", "A">>>>, <<"U+3385", <<"K", "B">>>>,
      <<"U+3386", <<"M", "B">>>>, <<"U+3387", <<"G", "B">>>>,
      <<"U+3388", <<"c", "a", "l">>>>, <<"U+3389", <<"k", "c", "a", "l">>>>,
      <<"U+338A", <<"p", "F">>>>, <<"U+338B", <<"n", "F">>>>,
      <<"U+338C", <<"U+03BC", "F">>>>, <<"U+338D", <<"U+03BC", "g">>>>,
      <<"U+338E", <<"m", "g">>>>, <<"U+338F", <<"k", "g">>>>,
      <<"U+3390", <<"H", "z">>>>, <<"U+3391", <<"k", "H", "z">>>>,
      <<"U+3392", <<"M", "H", "z">>>>, <<"U+3393", <<"G", "H", "z">>>>,
      <<"U+3394", <<"T", "H", "z">>>>, <<"U+3395", <<"U+03BC", "l">>>>,
      <<"U+3396", <<"m", "l">>>>, <<"U+3397", <<"d", "l">>>>,
      <<"U+3398", <<"k", "l">>>>, <<"U+3399", <<"f", "m">>>>,
      <<"U+339A", <<"n", "m">>>>, <<"U+339B", <<"U+03BC", "m">>>>,
      <<"U+339C", <<"m", "m">>>>, <<"U+339D", <<"c", "m">>>>,
      <<"U+339E", <<"k", "m">>>>, <<"U+339F", <<"m", "m", "2">>>>,
      <<"U+33A0", <<"c", "m", "2">>>>, <<"U+33A1", <<"m", "2">>>>,
      <<"U+33A2", <<"k", "m", "2">>>>, <<"U+33A3", <<"m", "m", "3">>>>,
      <<"U+33A4", <<"c", "m", "3">>>>, <<"U+33A5", <<"m", "3">>>>,
      <<"U+33A6", <<"k", "m", "3">>>>, <<"U+33A7", <<"m", "U+2215", "s">>>>,
      <<"U+33A8", <<"m", "U+2215", "s", "2">>>>, <<"U+33A9", <<"P", "a">>>>,
      <<"U+33AA", <<"k", "P", "a">>>>, <<"U+33AB", <<"M", "P", "a">>>>,
      <<"U+33AC", <<"G", "P", "a">>>>, <<"U+33AD", <<"r", "a", "d">>>>,
      <<"U+33AE", <<"r", "a", "d", "U+2215", "s">>>>,
      <<"U+33AF", <<"r", "a", "d", "U+2215", "s", "2">>>>,
      <<"U+33B0", <<"p", "s">>>>, <<"U+33B1", <<"n", "s">>>>,
      <<"U+33B2", <<"U+03BC", "s">>>>, <<"U+33B3", <<"m", "s">>>>,
      <<"U+33B4", <<"p", "V">>>>, <<"U+33B5", <<"n", "V">>>>,
      <<"U+33B6", <<"U+03BC", "V">>>>, <<"U+33B7", <<"m", "V">>>>,
      <<"U+33B8", <<"k", "V">>>>, <<"U+33B9", <<"M", "V">>>>,
      <<"U+33BA", <<"p", "W">>>>, <<"U+33BB", <<"n", "W">>>>,
      <<"U+33BC", <<"U+03BC", "W">>>>, <<"U+33BD", <<"m", "W">>>>,
      <<"U+33BE", <<"k", "W">>>>, <<"U+33BF", <<"M", "W">>>>,
      <<"U+33C0", <<"k", "U+03A9">>>>, <<"U+33C1", <<"M", "U+03A9">>>>,
      <<"U+33C2", <<"a", ".", "m", ".">>>>, <<"U+33C3", <<"B", "q">>>>,
      <<"U+33C4", <<"c", "c">>>>, <<"U+33C5", <<"c", "d">>>>,
      <<"U+33C6", <<"C", "U+2215", "k", "g">>>>,
      <<"U+33C7", <<"C", "o", ".">>>>, <<"U+33C8", <<"d", "B">>>>,
      <<"U+33C9", <<"G", "y">>>>, <<"U+33CA", <<"h", "a">>>>,
      <<"U+33CB", <<"H", "P">>>>, <<"U+33CC", <<"i", "n">>>>,
      <<"U+33CD", <<"K", "K">>>>, <<"U+33CE", <<"K", "M">>>>,
      <<"U+33CF", <<"k", "t">>>>, <<"U+33D0", <<"l", "m">>>>,
      <<"U+33D1", <<"l", "n">>>>, <<"U+33D2", <<"l", "o", "g">>>>,
      <<"U+33D3", <<"l", "x">>>>, <<"U+33D4", <<"m", "b">>>>,
      <<"U+33D5", <<"m", "i", "l">>>>, <<"U+33D6", <<"m", "o", "l">>>>,
      <<"U+33D7", <<"P", "H">>>>, <<"U+33D8", <<"p", ".", "m", ".">>>>,
      <<"U+33D9", <<"P", "P", "M">>>>, <<"U+33DA", <<"P", "R">>>>,
      <<"U+33DB", <<"s", "r">>>>, <<"U+33DC", <<"S", "v">>>>,
      <<"U+33DD", <<"W", "b">>>>, <<"U+33DE", <<"V", "U+2215", "m">>>>,
      <<"U+33DF", <<"A", "U+2215", "m">>>>, <<"U+33E0", <<"1", "U+65E5">>>>,
      <<"U+33E1", <<"2", "U+65E5">>>>, <<"U+33E2", <<"3", "U+65E5">>>>,
      <<"U+33E3", <<"4", "U+65E5">>>>, <<"U+33E4", <<"5", "U+65E5">>>>,
      <<"U+33E5", <<"6", "U+65E5">>>>, <<"U+33E6", <<"7", "U+65E5">>>>,
      <<"U+33E7", <<"8", "U+65E5">>>>, <<"U+33E8", <<"9", "U+65E5">>>>,
      <<"U+33E9", <<"1", "0", "U+65E5">>>>,
      <<"U+33EA", <<"1", "1", "U+65E5">>>>,
      <<"U+33EB", <<"1", "2", "U+65E5">>>>,
      <<"U+33EC", <<"1", "3", "U+65E5">>>>,
      <<"U+33ED", <<"1", "4", "U+65E5">>>>,
      <<"U+33EE", <<"1", "5", "U+65E5">>>>,
      <<"U+33EF", <<"1", "6", "U+65E5">>>>,
      <<"U+33F0", <<"1", "7", "U+65E5">>>>,
      <<"U+33F1", <<"1", "8", "U+65E5">>>>,
      <<"U+33F2", <<"1", "9", "U+65E5">>>>,
      <<"U+33F3", <<"2", "0", "U+65E5">>>>,
      <<"U+33F4", <<"2", "1", "U+65E5">>>>,
      <<"U+33F5", <<"2", "2", "U+65E5">>>>,
      <<"U+33F6", <<"2", "3", "U+65E5">>>>,
      <<"U+33F7", <<"2", "4", "U+65E5">>>>,
      <<"U+33F8", <<"2", "5", "U+65E5">>>>,
      <<"U+33F9", <<"2", "6", "U+65E5">>>>,
      <<"U+33FA", <<"2", "7", "U+65E5">>>>,
      <<"U+33FB", <<"2", "8", "U+65E5">>>>,
      <<"U+33FC", <<"2", "9", "U+65E5">>>>,
      <<"U+33FD", <<"3", "0", "U+65E5">>>>,
      <<"U+33FE", <<"3", "1", "U+65E5">>>>, <<"U+33FF", <<"g", "a", "l">>>>,
      <<"U+A69C", <<"U+044A">>>>, <<"U+A69D", <<"U+044C">>>>,
      <<"U+A770", <<"U+A76F">>>>, <<"U+A7F2", <<"C">>>>,
      <<"U+A7F3", <<"F">>>>, <<"U+A7F4", <<"Q">>>>,
      <<"U+A7F8", <<"U+0126">>>>, <<"U+A7F9", <<"U+0153">>>>,
      <<"U+AB5C", <<"U+A727">>>>, <<"U+AB5D", <<"U+AB37">>>>,
      <<"U+AB5E", <<"U+026B">>>>, <<"U+AB5F", <<"U+AB52">>>>,
      <<"U+AB69", <<"U+028D">>>>, <<"U+F900", <<"U+8C48">>>>,
      <<"U+F901", <<"U+66F4">>>>, <<"U+F902", <<"U+8ECA">>>>,
      <<"U+F903", <<"U+8CC8">>>>, <<"U+F904", <<"U+6ED1">>>>,
      <<"U+F905", <<"U+4E32">>>>, <<"U+F906", <<"U+53E5">>>>,
      <<"U+F907", <<"U+9F9C">>>>, <<"U+F908", <<"U+9F9C">>>>,
      <<"U+F909", <<"U+5951">>>>, <<"U+F90A", <<"U+91D1">>>>,
      <<"U+F90B", <<"U+5587">>>>, <<"U+F90C", <<"U+5948">>>>,
      <<"U+F90D", <<"U+61F6">>>>, <<"U+F90E", <<"U+7669">>>>,
      <<"U+F90F", <<"U+7F85">>>>, <<"U+F910", <<"U+863F">>>>,
      <<"U+F911", <<"U+87BA">>>>, <<"U+F912", <<"U+88F8">>>>,
      <<"U+F913", <<"U+908F">>>>, <<"U+F914", <<"U+6A02">>>>,
      <<"U+F915", <<"U+6D1B">>>>, <<"U+F916", <<"U+70D9">>>>,
      <<"U+F917", <<"U+73DE">>>>, <<"U+F918", <<"U+843D">>>>,
      <<"U+F919", <<"U+916A">>>>, <<"U+F91A", <<"U+99F1">>>>,
      <<"U+F91B", <<"U+4E82">>>>, <<"U+F91C", <<"U+5375">>>>,
      <<"U+F91D", <<"U+6B04">>>>, <<"U+F91E", <<"U+721B">>>>,
      <<"U+F91F", <<"U+862D">>>>, <<"U+F920", <<"U+9E1E">>>>,
      <<"U+F921", <<"U+5D50">>>>, <<"U+F922", <<"U+6FEB">>>>,
      <<"U+F923", <<"U+85CD">>>>, <<"U+F924", <<"U+8964">>>>,
      <<"U+F925", <<"U+62C9">>>>, <<"U+F926", <<"U+81D8">>>>,
      <<"U+F927", <<"U+881F">>>>, <<"U+F928", <<"U+5ECA">>>>,
      <<"U+F929", <<"U+6717">>>>, <<"U+F92A", <<"U+6D6A">>>>,
      <<"U+F92B", <<"U+72FC">>>>, <<"U+F92C", <<"U+90CE">>>>,
      <<"U+F92D", <<"U+4F86">>>>, <<"U+F92E", <<"U+51B7">>>>,
      <<"U+F92F", <<"U+52DE">>>>, <<"U+F930", <<"U+64C4">>>>,
      <<"U+F931", <<"U+6AD3">>>>, <<"U+F932", <<"U+7210">>>>,
      <<"U+F933", <<"U+76E7">>>>, <<"U+F934", <<"U+8001">>>>,
      <<"U+F935", <<"U+8606">>>>, <<"U+F936", <<"U+865C">>>>,
      <<"U+F937", <<"U+8DEF">>>>, <<"U+F938", <<"U+9732">>>>,
      <<"U+F939", <<"U+9B6F">>>>, <<"U+F93A", <<"U+9DFA">>>>,
      <<"U+F93B", <<"U+788C">>>>, <<"U+F93C", <<"U+797F">>>>,
      <<"U+F93D", <<"U+7DA0">>>>, <<"U+F93E", <<"U+83C9">>>>,
      <<"U+F93F", <<"U+9304">>>>, <<"U+F940", <<"U+9E7F">>>>,
      <<"U+F941", <<"U+8AD6">>>>, <<"U+F942", <<"U+58DF">>>>,
      <<"U+F943", <<"U+5F04">>>>, <<"U+F944", <<"U+7C60">>>>,
      <<"U+F945", <<"U+807E">>>>, <<"U+F946", <<"U+7262">>>>,
      <<"U+F947", <<"U+78CA">>>>, <<"U+F948", <<"U+8CC2">>>>,
      <<"U+F949", <<"U+96F7">>>>, <<"U+F94A", <<"U+58D8">>>>,
      <<"U+F94B", <<"U+5C62">>>>, <<"U+F94C", <<"U+6A13">>>>,
      <<"U+F94D", <<"U+6DDA">>>>, <<"U+F94E", <<"U+6F0F">>>>,
      <<"U+F94F", <<"U+7D2F">>>>, <<"U+F950", <<"U+7E37">>>>,
      <<"U+F951", <<"U+964B">>>>, <<"U+F952", <<"U+52D2">>>>,
      <<"U+F953", <<"U+808B">>>>, <<"U+F954", <<"U+51DC">>>>,
      <<"U+F955", <<"U+51CC">>>>, <<"U+F956", <<"U+7A1C">>>>,
      <<"U+F957", <<"U+7DBE">>>>, <<"U+F958", <<"U+83F1">>>>,
      <<"U+F959", <<"U+9675">>>>, <<"U+F95A", <<"U+8B80">>>>,
      <<"U+F95B", <<"U+62CF">>>>, <<"U+F95C", <<"U+6A02">>>>,
      <<"U+F95D", <<"U+8AFE">>>>, <<"U+F95E", <<"U+4E39">>>>,
      <<"U+F95F", <<"U+5BE7">>>>, <<"U+F960", <<"U+6012">>>>,
      <<"U+F961", <<"U+7387">>>>, <<"U+F962", <<"U+7570">>>>,
      <<"U+F963", <<"U+5317">>>>, <<"U+F964", <<"U+78FB">>>>,
      <<"U+F965", <<"U+4FBF">>>>, <<"U+F966", <<"U+5FA9">>>>,
      <<"U+F967", <<"U+4E0D">>>>, <<"U+F968", <<"U+6CCC">>>>,
      <<"U+F969", <<"U+6578">>>>, <<"U+F96A", <<"U+7D22">>>>,
      <<"U+F96B", <<"U+53C3">>>>, <<"U+F96C", <<"U+585E">>>>,
      <<"U+F96D", <<"U+7701">>>>, <<"U+F96E", <<"U+8449">>>>,
      <<"U+F96F", <<"U+8AAA">>>>, <<"U+F970", <<"U+6BBA">>>>,
      <<"U+F971", <<"U+8FB0">>>>, <<"U+F972", <<"U+6C88">>>>,
      <<"U+F973", <<"U+62FE">>>>, <<"U+F974", <<"U+82E5">>>>,
      <<"U+F975", <<"U+63A0">>>>, <<"U+F976", <<"U+7565">>>>,
      <<"U+F977", <<"U+4EAE">>>>, <<"U+F978", <<"U+5169">>>>,
      <<"U+F979", <<"U+51C9">>>>, <<"U+F97A", <<"U+6881">>>>,
      <<"U+F97B", <<"U+7CE7">>>>, <<"U+F97C", <<"U+826F">>>>,
      <<"U+F97D", <<"U+8AD2">>>>, <<"U+F97E", <<"U+91CF">>>>,
      <<"U+F97F", <<"U+52F5">>>>, <<"U+F980", <<"U+5442">>>>,
      <<"U+F981", <<"U+5973">>>>, <<"U+F982", <<"U+5EEC">>>>,
      <<"U+F983", <<"U+65C5">>>>, <<"U+F984", <<"U+6FFE">>>>,
      <<"U+F985", <<"U+792A">>>>, <<"U+F986", <<"U+95AD">>>>,
      <<"U+F987", <<"U+9A6A">>>>, <<"U+F988", <<"U+9E97">>>>,
      <<"U+F989", <<"U+9ECE">>>>, <<"U+F98A", <<"U+529B">>>>,
      <<"U+F98B", <<"U+66C6">>>>, <<"U+F98C", <<"U+6B77">>>>,
      <<"U+F98D", <<"U+8F62">>>>, <<"U+F98E", <<"U+5E74">>>>,
      <<"U+F98F", <<"U+6190">>>>, <<"U+F990", <<"U+6200">>>>,
      <<"U+F991", <<"U+649A">>>>, <<"U+F992", <<"U+6F23">>>>,
      <<"U+F993", <<"U+7149">>>>, <<"U+F994", <<"U+7489">>>>,
      <<"U+F995", <<"U+79CA">>>>, <<"U+F996", <<"U+7DF4">>>>,
      <<"U+F997", <<"U+806F">>>>, <<"U+F998", <<"U+8F26">>>>,
      <<"U+F999", <<"U+84EE">>>>, <<"U+F99A", <<"U+9023">>>>,
      <<"U+F99B", <<"U+934A">>>>, <<"U+F99C", <<"U+5217">>>>,
      <<"U+F99D", <<"U+52A3">>>>, <<"U+F99E", <<"U+54BD">>>>,
      <<"U+F99F", <<"U+70C8">>>>, <<"U+F9A0", <<"U+88C2">>>>,
      <<"U+F9A1", <<"U+8AAA">>>>, <<"U+F9A2", <<"U+5EC9">>>>,
      <<"U+F9A3", <<"U+5FF5">>>>, <<"U+F9A4", <<"U+637B">>>>,
      <<"U+F9A5", <<"U+6BAE">>>>, <<"U+F9A6", <<"U+7C3E">>>>,
      <<"U+F9A7", <<"U+7375">>>>, <<"U+F9A8", <<"U+4EE4">>>>,
      <<"U+F9A9", <<"U+56F9">>>>, <<"U+F9AA", <<"U+5BE7">>>>,
      <<"U+F9AB", <<"U+5DBA">>>>, <<"U+F9AC", <<"U+601C">>>>,
      <<"U+F9AD", <<"U+73B2">>>>, <<"U+F9AE", <<"U+7469">>>>,
      <<"U+F9AF", <<"U+7F9A">>>>, <<"U+F9B0", <<"U+8046">>>>,
      <<"U+F9B1", <<"U+9234">>>>, <<"U+F9B2", <<"U+96F6">>>>,
      <<"U+F9B3", <<"U+9748">>>>, <<"U+F9B4", <<"U+9818">>>>,
      <<"U+F9B5", <<"U+4F8B">>>>, <<"U+F9B6", <<"U+79AE">>>>,
      <<"U+F9B7", <<"U+91B4">>>>, <<"U+F9B8", <<"U+96B8">>>>,
      <<"U+F9B9", <<"U+60E1">>>>, <<"U+F9BA", <<"U+4E86">>>>,
      <<"U+F9BB", <<"U+50DA">>>>, <<"U+F9BC", <<"U+5BEE">>>>,
      <<"U+F9BD", <<"U+5C3F">>>>, <<"U+F9BE", <<"U+6599">>>>,
      <<"U+F9BF", <<"U+6A02">>>>, <<"U+F9C0", <<"U+71CE">>>>,
      <<"U+F9C1", <<"U+7642">>>>, <<"U+F9C2", <<"U+84FC">>>>,
      <<"U+F9C3", <<"U+907C">>>>, <<"U+F9C4", <<"U+9F8D">>>>,
      <<"U+F9C5", <<"U+6688">>>>, <<"U+F9C6", <<"U+962E">>>>,
      <<"U+F9C7", <<"U+5289">>>>, <<"U+F9C8", <<"U+677B">>>>,
      <<"U+F9C9", <<"U+67F3">>>>, <<"U+F9CA", <<"U+6D41">>>>,
      <<"U+F9CB", <<"U+6E9C">>>>, <<"U+F9CC", <<"U+7409">>>>,
      <<"U+F9CD", <<"U+7559">>>>, <<"U+F9CE", <<"U+786B">>>>,
      <<"U+F9CF", <<"U+7D10">>>>, <<"U+F9D0", <<"U+985E">>>>,
      <<"U+F9D1", <<"U+516D">>>>, <<"U+F9D2", <<"U+622E">>>>,
      <<"U+F9D3", <<"U+9678">>>>, <<"U+F9D4", <<"U+502B">>>>,
      <<"U+F9D5", <<"U+5D19">>>>, <<"U+F9D6", <<"U+6DEA">>>>,
      <<"U+F9D7", <<"U+8F2A">>>>, <<"U+F9D8", <<"U+5F8B">>>>,
      <<"U+F9D9", <<"U+6144">>>>, <<"U+F9DA", <<"U+6817">>>>,
      <<"U+F9DB", <<"U+7387">>>>, <<"U+F9DC", <<"U+9686">>>>,
      <<"U+F9DD", <<"U+5229">>>>, <<"U+F9DE", <<"U+540F">>>>,
      <<"U+F9DF", <<"U+5C65">>>>, <<"U+F9E0", <<"U+6613">>>>,
      <<"U+F9E1", <<"U+674E">>>>, <<"U+F9E2", <<"U+68A8">>>>,
      <<"U+F9E3", <<"U+6CE5">>>>, <<"U+F9E4", <<"U+7406">>>>,
      <<"U+F9E5", <<"U+75E2">>>>, <<"U+F9E6", <<"U+7F79">>>>,
      <<"U+F9E7", <<"U+88CF">>>>, <<"U+F9E8", <<"U+88E1">>>>,
      <<"U+F9E9", <<"U+91CC">>>>, <<"U+F9EA", <<"U+96E2">>>>,
      <<"U+F9EB", <<"U+533F">>>>, <<"U+F9EC", <<"U+6EBA">>>>,
      <<"U+F9ED", <<"U+541D">>>>, <<"U+F9EE", <<"U+71D0">>>>,
      <<"U+F9EF", <<"U+7498">>>>, <<"U+F9F0", <<"U+85FA">>>>,
      <<"U+F9F1", <<"U+96A3">>>>, <<"U+F9F2", <<"U+9C57">>>>,
      <<"U+F9F3", <<"U+9E9F">>>>, <<"U+F9F4", <<"U+6797">>>>,
      <<"U+F9F5", <<"U+6DCB">>>>, <<"U+F9F6", <<"U+81E8">>>>,
      <<"U+F9F7", <<"U+7ACB">>>>, <<"U+F9F8", <<"U+7B20">>>>,
      <<"U+F9F9", <<"U+7C92">>>>, <<"U+F9FA", <<"U+72C0">>>>,
      <<"U+F9FB", <<"U+7099">>>>, <<"U+F9FC", <<"U+8B58">>>>,
      <<"U+F9FD", <<"U+4EC0">>>>, <<"U+F9FE", <<"U+8336">>>>,
      <<"U+F9FF", <<"U+523A">>>>, <<"U+FA00", <<"U+5207">>>>,
      <<"U+FA01", <<"U+5EA6">>>>, <<"U+FA02", <<"U+62D3">>>>,
      <<"U+FA03", <<"U+7CD6">>>>, <<"U+FA04", <<"U+5B85">>>>,
      <<"U+FA05", <<"U+6D1E">>>>, <<"U+FA06", <<"U+66B4">>>>,
      <<"U+FA07", <<"U+8F3B">>>>, <<"U+FA08", <<"U+884C">>>>,
      <<"U+FA09", <<"U+964D">>>>, <<"U+FA0A", <<"U+898B">>>>,
      <<"U+FA0B", <<"U+5ED3">>>>, <<"U+FA0C", <<"U+5140">>>>,
      <<"U+FA0D", <<"U+55C0">>>>, <<"U+FA10", <<"U+585A">>>>,
      <<"U+FA12", <<"U+6674">>>>, <<"U+FA15", <<"U+51DE">>>>,
      <<"U+FA16", <<"U+732A">>>>, <<"U+FA17", <<"U+76CA">>>>,
      <<"U+FA18", <<"U+793C">>>>, <<"U+FA19", <<"U+795E">>>>,
      <<"U+FA1A", <<"U+7965">>>>, <<"U+FA1B", <<"U+798F">>>>,
      <<"U+FA1C", <<"U+9756">>>>, <<"U+FA1D", <<"U+7CBE">>>>,
      <<"U+FA1E", <<"U+7FBD">>>>, <<"U+FA20", <<"U+8612">>>>,
      <<"U+FA22", <<"U+8AF8">>>>, <<"U+FA25", <<"U+9038">>>>,
      <<"U+FA26", <<"U+90FD">>>>, <<"U+FA2A", <<"U+98EF">>>>,
      <<"U+FA2B", <<"U+98FC">>>>, <<"U+FA2C", <<"U+9928">>>>,
      <<"U+FA2D", <<"U+9DB4">>>>, <<"U+FA2E", <<"U+90DE">>>>,
      <<"U+FA2F", <<"U+96B7">>>>, <<"U+FA30", <<"U+4FAE">>>>,
      <<"U+FA31", <<"U+50E7">>>>, <<"U+FA32", <<"U+514D">>>>,
      <<"U+FA33", <<"U+52C9">>>>, <<"U+FA34", <<"U+52E4">>>>,
      <<"U+FA35", <<"U+5351">>>>, <<"U+FA36", <<"U+559D">>>>,
      <<"U+FA37", <<"U+5606">>>>, <<"U+FA38", <<"U+5668">>>>,
      <<"U+FA39", <<"U+5840">>>>, <<"U+FA3A", <<"U+58A8">>>>,
      <<"U+FA3B", <<"U+5C64">>>>, <<"U+FA3C", <<"U+5C6E">>>>,
      <<"U+FA3D", <<"U+6094">>>>, <<"U+FA3E", <<"U+6168">>>>,
      <<"U+FA3F", <<"U+618E">>>>, <<"U+FA40", <<"U+61F2">>>>,
      <<"U+FA41", <<"U+654F">>>>, <<"U+FA42", <<"U+65E2">>>>,
      <<"U+FA43", <<"U+6691">>>>, <<"U+FA44", <<"U+6885">>>>,
      <<"U+FA45", <<"U+6D77">>>>, <<"U+FA46", <<"U+6E1A">>>>,
      <<"U+FA47", <<"U+6F22">>>>, <<"U+FA48", <<"U+716E">>>>,
      <<"U+FA49", <<"U+722B">>>>, <<"U+FA4A", <<"U+7422">>>>,
      <<"U+FA4B", <<"U+7891">>>>, <<"U+FA4C", <<"U+793E">>>>,
      <<"U+FA4D", <<"U+7949">>>>, <<"U+FA4E", <<"U+7948">>>>,
      <<"U+FA4F", <<"U+7950">>>>, <<"U+FA50", <<"U+7956">>>>,
      <<"U+FA51", <<"U+795D">>>>, <<"U+FA52", <<"U+798D">>>>,
      <<"U+FA53", <<"U+798E">>>>, <<"U+FA54", <<"U+7A40">>>>,
      <<"U+FA55", <<"U+7A81">>>>, <<"U+FA56", <<"U+7BC0">>>>,
      <<"U+FA57", <<"U+7DF4">>>>, <<"U+FA58", <<"U+7E09">>>>,
      <<"U+FA59", <<"U+7E41">>>>, <<"U+FA5A", <<"U+7F72">>>>,
      <<"U+FA5B", <<"U+8005">>>>, <<"U+FA5C", <<"U+81ED">>>>,
      <<"U+FA5D", <<"U+8279">>>>, <<"U+FA5E", <<"U+8279">>>>,
      <<"U+FA5F", <<"U+8457">>>>, <<"U+FA60", <<"U+8910">>>>,
      <<"U+FA61", <<"U+8996">>>>, <<"U+FA62", <<"U+8B01">>>>,
      <<"U+FA63", <<"U+8B39">>>>, <<"U+FA64", <<"U+8CD3">>>>,
      <<"U+FA65", <<"U+8D08">>>>, <<"U+FA66", <<"U+8FB6">>>>,
      <<"U+FA67", <<"U+9038">>>>, <<"U+FA68", <<"U+96E3">>>>,
      <<"U+FA69", <<"U+97FF">>>>, <<"U+FA6A", <<"U+983B">>>>,
      <<"U+FA6B", <<"U+6075">>>>, <<"U+FA6C", <<"U+242EE">>>>,
      <<"U+FA6D", <<"U+8218">>>>, <<"U+FA70", <<"U+4E26">>>>,
      <<"U+FA71", <<"U+51B5">>>>, <<"U+FA72", <<"U+5168">>>>,
      <<"U+FA73", <<"U+4F80">>>>, <<"U+FA74", <<"U+5145">>>>,
      <<"U+FA75", <<"U+5180">>>>, <<"U+FA76", <<"U+52C7">>>>,
      <<"U+FA77", <<"U+52FA">>>>, <<"U+FA78", <<"U+559D">>>>,
      <<"U+FA79", <<"U+5555">>>>, <<"U+FA7A", <<"U+5599">>>>,
      <<"U+FA7B", <<"U+55E2">>>>, <<"U+FA7C", <<"U+585A">>>>,
      <<"U+FA7D", <<"U+58B3">>>>, <<"U+FA7E", <<"U+5944">>>>,
      <<"U+FA7F", <<"U+5954">>>>, <<"U+FA80", <<"U+5A62">>>>,
      <<"U+FA81", <<"U+5B28">>>>, <<"U+FA82", <<"U+5ED2">>>>,
      <<"U+FA83", <<"U+5ED9">>>>, <<"U+FA84", <<"U+5F69">>>>,
      <<"U+FA85", <<"U+5FAD">>>>, <<"U+FA86", <<"U+60D8">>>>,
      <<"U+FA87", <<"U+614E">>>>, <<"U+FA88", <<"U+6108">>>>,
      <<"U+FA89", <<"U+618E">>>>, <<"U+FA8A", <<"U+6160">>>>,
      <<"U+FA8B", <<"U+61F2">>>>, <<"U+FA8C", <<"U+6234">>>>,
      <<"U+FA8D", <<"U+63C4">>>>, <<"U+FA8E", <<"U+641C">>>>,
      <<"U+FA8F", <<"U+6452">>>>, <<"U+FA90", <<"U+6556">>>>,
      <<"U+FA91", <<"U+6674">>>>, <<"U+FA92", <<"U+6717">>>>,
      <<"U+FA93", <<"U+671B">>>>, <<"U+FA94", <<"U+6756">>>>,
      <<"U+FA95", <<"U+6B79">>>>, <<"U+FA96", <<"U+6BBA">>>>,
      <<"U+FA97", <<"U+6D41">>>>, <<"U+FA98", <<"U+6EDB">>>>,
      <<"U+FA99", <<"U+6ECB">>>>, <<"U+FA9A", <<"U+6F22">>>>,
      <<"U+FA9B", <<"U+701E">>>>, <<"U+FA9C", <<"U+716E">>>>,
      <<"U+FA9D", <<"U+77A7">>>>, <<"U+FA9E", <<"U+7235">>>>,
      <<"U+FA9F", <<"U+72AF">>>>, <<"U+FAA0", <<"U+732A">>>>,
      <<"U+FAA1", <<"U+7471">>>>, <<"U+FAA2", <<"U+7506">>>>,
      <<"U+FAA3", <<"U+753B">>>>, <<"U+FAA4", <<"U+761D">>>>,
      <<"U+FAA5", <<"U+761F">>>>, <<"U+FAA6", <<"U+76CA">>>>,
      <<"U+FAA7", <<"U+76DB">>>>, <<"U+FAA8", <<"U+76F4">>>>,
      <<"U+FAA9", <<"U+774A">>>>, <<"U+FAAA", <<"U+7740">>>>,
      <<"U+FAAB", <<"U+78CC">>>>, <<"U+FAAC", <<"U+7AB1">>>>,
      <<"U+FAAD", <<"U+7BC0">>>>, <<"U+FAAE", <<"U+7C7B">>>>,
      <<"U+FAAF", <<"U+7D5B">>>>, <<"U+FAB0", <<"U+7DF4">>>>,
      <<"U+FAB1", <<"U+7F3E">>>>, <<"U+FAB2", <<"U+8005">>>>,
      <<"U+FAB3", <<"U+8352">>>>, <<"U+FAB4", <<"U+83EF">>>>,
      <<"U+FAB5", <<"U+8779">>>>, <<"U+FAB6", <<"U+8941">>>>,
      <<"U+FAB7", <<"U+8986">>>>, <<"U+FAB8", <<"U+8996">>>>,
      <<"U+FAB9", <<"U+8ABF">>>>, <<"U+FABA", <<"U+8AF8">>>>,
      <<"U+FABB", <<"U+8ACB">>>>, <<"U+FABC", <<"U+8B01">>>>,
      <<"U+FABD", <<"U+8AFE">>>>, <<"U+FABE", <<"U+8AED">>>>,
      <<"U+FABF", <<"U+8B39">>>>, <<"U+FAC0", <<"U+8B8A">>>>,
      <<"U+FAC1", <<"U+8D08">>>>, <<"U+FAC2", <<"U+8F38">>>>,
      <<"U+FAC3", <<"U+9072">>>>, <<"U+FAC4", <<"U+9199">>>>,
      <<"U+FAC5", <<"U+9276">>>>, <<"U+FAC6", <<"U+967C">>>>,
      <<"U+FAC7", <<"U+96E3">>>>, <<"U+FAC8", <<"U+9756">>>>,
      <<"U+FAC9", <<"U+97DB">>>>, <<"U+FACA", <<"U+97FF">>>>,
      <<"U+FACB", <<"U+980B">>>>, <<"U+FACC", <<"U+983B">>>>,
      <<"U+FACD", <<"U+9B12">>>>, <<"U+FACE", <<"U+9F9C">>>>,
      <<"U+FACF", <<"U+2284A">>>>, <<"U+FAD0", <<"U+22844">>>>,
      <<"U+FAD1", <<"U+233D5">>>>, <<"U+FAD2", <<"U+3B9D">>>>,
      <<"U+FAD3", <<"U+4018">>>>, <<"U+FAD4", <<"U+4039">>>>,
      <<"U+FAD5", <<"U+25249">>>>, <<"U+FAD6", <<"U+25CD0">>>>,
      <<"U+FAD7", <<"U+27ED3">>>>, <<"U+FAD8", <<"U+9F43">>>>,
      <<"U+FAD9", <<"U+9F8E">>>>, <<"U+FB00", <<"f", "f">>>>,
      <<"U+FB01", <<"f", "i">>>>, <<"U+FB02", <<"f", "l">>>>,
      <<"U+FB03", <<"f", "f", "i">>>>, <<"U+FB04", <<"f", "f", "l">>>>,
      <<"U+FB05", <<"s", "t">>>>, <<"U+FB06", <<"s", "t">>>>,
      <<"U+FB13", <<"U+0574", "U+0576">>>>,
      <<"U+FB14", <<"U+0574", "U+0565">>>>,
      <<"U+FB15", <<"U+0574", "U+056B">>>>,
      <<"U+FB16", <<"U+057E", "U+0576">>>>,
      <<"U+FB17", <<"U+0574", "U+056D">>>>,
      <<"U+FB1D", <<"U+05D9", "U+05B4">>>>,
      <<"U+FB1F", <<"U+05F2", "U+05B7">>>>, <<"U+FB20", <<"U+05E2">>>>,
      <<"U+FB21", <<"U+05D0">>>>, <<"U+FB22", <<"U+05D3">>>>,
      <<"U+FB23", <<"U+05D4">>>>, <<"U+FB24", <<"U+05DB">>>>,
      <<"U+FB25", <<"U+05DC">>>>, <<"U+FB26", <<"U+05DD">>>>,
      <<"U+FB27", <<"U+05E8">>>>, <<"U+FB28", <<"U+05EA">>>>,
      <<"U+FB29", <<"+">>>>, <<"U+FB2A", <<"U+05E9", "U+05C1">>>>,
      <<"U+FB2B", <<"U+05E9", "U+05C2">>>>,
      <<"U+FB2C", <<"U+05E9", "U+05BC", "U+05C1">>>>,
      <<"U+FB2D", <<"U+05E9", "U+05BC", "U+05C2">>>>,
      <<"U+FB2E", <<"U+05D0", "U+05B7">>>>,
      <<"U+FB2F", <<"U+05D0", "U+05B8">>>>,
      <<"U+FB30", <<"U+05D0", "U+05BC">>>>,
      <<"U+FB31", <<"U+05D1", "U+05BC">>>>,
      <<"U+FB32", <<"U+05D2", "U+05BC">>>>,
      <<"U+FB33", <<"U+05D3", "U+05BC">>>>,
      <<"U+FB34", <<"U+05D4", "U+05BC">>>>,
      <<"U+FB35", <<"U+05D5", "U+05BC">>>>,
      <<"U+FB36", <<"U+05D6", "U+05BC">>>>,
      <<"U+FB38", <<"U+05D8", "U+05BC">>>>,
      <<"U+FB39", <<"U+05D9", "U+05BC">>>>,
      <<"U+FB3A", <<"U+05DA", "U+05BC">>>>,
      <<"U+FB3B", <<"U+05DB", "U+05BC">>>>,
      <<"U+FB3C", <<"U+05DC", "U+05BC">>>>,
      <<"U+FB3E", <<"U+05DE", "U+05BC">>>>,
      <<"U+FB40", <<"U+05E0", "U+05BC">>>>,
      <<"U+FB41", <<"U+05E1", "U+05BC">>>>,
      <<"U+FB43", <<"U+05E3", "U+05BC">>>>,
      <<"U+FB44", <<"U+05E4", "U+05BC">>>>,
      <<"U+FB46", <<"U+05E6", "U+05BC">>>>,
      <<"U+FB47", <<"U+05E7", "U+05BC">>>>,
      <<"U+FB48", <<"U+05E8", "U+05BC">>>>,
      <<"U+FB49", <<"U+05E9", "U+05BC">>>>,
      <<"U+FB4A", <<"U+05EA", "U+05BC">>>>,
      <<"U+FB4B", <<"U+05D5", "U+05B9">>>>,
      <<"U+FB4C", <<"U+05D1", "U+05BF">>>>,
      <<"U+FB4D", <<"U+05DB", "U+05BF">>>>,
      <<"U+FB4E", <<"U+05E4", "U+05BF">>>>,
      <<"U+FB4F", <<"U+05D0", "U+05DC">>>>, <<"U+FB50", <<"U+0671">>>>,
      <<"U+FB51", <<"U+0671">>>>, <<"U+FB52", <<"U+067B">>>>,
      <<"U+FB53", <<"U+067B">>>>, <<"U+FB54", <<"U+067B">>>>,
      <<"U+FB55", <<"U+067B">>>>, <<"U+FB56", <<"U+067E">>>>,
      <<"U+FB57", <<"U+067E">>>>, <<"U+FB58", <<"U+067E">>>>,
      <<"U+FB59", <<"U+067E">>>>, <<"U+FB5A", <<"U+0680">>>>,
      <<"U+FB5B", <<"U+0680">>>>, <<"U+FB5C", <<"U+0680">>>>,
      <<"U+FB5D", <<"U+0680">>>>, <<"U+FB5E", <<"U+067A">>>>,
      <<"U+FB5F", <<"U+067A">>>>, <<"U+FB60", <<"U+067A">>>>,
      <<"U+FB61", <<"U+067A">>>>, <<"U+FB62", <<"U+067F">>>>,
      <<"U+FB63", <<"U+067F">>>>, <<"U+FB64", <<"U+067F">>>>,
      <<"U+FB65", <<"U+067F">>>>, <<"U+FB66", <<"U+0679">>>>,
      <<"U+FB67", <<"U+0679">>>>, <<"U+FB68", <<"U+0679">>>>,
      <<"U+FB69", <<"U+0679">>>>, <<"U+FB6A", <<"U+06A4">>>>,
      <<"U+FB6B", <<"U+06A4">>>>, <<"U+FB6C", <<"U+06A4">>>>,
      <<"U+FB6D", <<"U+06A4">>>>, <<"U+FB6E", <<"U+06A6">>>>,
      <<"U+FB6F", <<"U+06A6">>>>, <<"U+FB70", <<"U+06A6">>>>,
      <<"U+FB71", <<"U+06A6">>>>, <<"U+FB72", <<"U+0684">>>>,
      <<"U+FB73", <<"U+0684">>>>, <<"U+FB74", <<"U+0684">>>>,
      <<"U+FB75", <<"U+0684">>>>, <<"U+FB76", <<"U+0683">>>>,
      <<"U+FB77", <<"U+0683">>>>, <<"U+FB78", <<"U+0683">>>>,
      <<"U+FB79", <<"U+0683">>>>, <<"U+FB7A", <<"U+0686">>>>,
      <<"U+FB7B", <<"U+0686">>>>, <<"U+FB7C", <<"U+0686">>>>,
      <<"U+FB7D", <<"U+0686">>>>, <<"U+FB7E", <<"U+0687">>>>,
      <<"U+FB7F", <<"U+0687">>>>, <<"U+FB80", <<"U+0687">>>>,
      <<"U+FB81", <<"U+0687">>>>, <<"U+FB82", <<"U+068D">>>>,
      <<"U+FB83", <<"U+068D">>>>, <<"U+FB84", <<"U+068C">>>>,
      <<"U+FB85", <<"U+068C">>>>, <<"U+FB86", <<"U+068E">>>>,
      <<"U+FB87", <<"U+068E">>>>, <<"U+FB88", <<"U+0688">>>>,
      <<"U+FB89", <<"U+0688">>>>, <<"U+FB8A", <<"U+0698">>>>,
      <<"U+FB8B", <<"U+0698">>>>, <<"U+FB8C", <<"U+0691">>>>,
      <<"U+FB8D", <<"U+0691">>>>, <<"U+FB8E", <<"U+06A9">>>>,
      <<"U+FB8F", <<"U+06A9">>>>, <<"U+FB90", <<"U+06A9">>>>,
      <<"U+FB91", <<"U+06A9">>>>, <<"U+FB92", <<"U+06AF">>>>,
      <<"U+FB93", <<"U+06AF">>>>, <<"U+FB94", <<"U+06AF">>>>,
      <<"U+FB95", <<"U+06AF">>>>, <<"U+FB96", <<"U+06B3">>>>,
      <<"U+FB97", <<"U+06B3">>>>, <<"U+FB98", <<"U+06B3">>>>,
      <<"U+FB99", <<"U+06B3">>>>, <<"U+FB9A", <<"U+06B1">>>>,
      <<"U+FB9B", <<"U+06B1">>>>, <<"U+FB9C", <<"U+06B1">>>>,
      <<"U+FB9D", <<"U+06B1">>>>, <<"U+FB9E", <<"U+06BA">>>>,
      <<"U+FB9F", <<"U+06BA">>>>, <<"U+FBA0", <<"U+06BB">>>>,
      <<"U+FBA1", <<"U+06BB">>>>, <<"U+FBA2", <<"U+06BB">>>>,
      <<"U+FBA3", <<"U+06BB">>>>, <<"U+FBA4", <<"U+06D5", "U+0654">>>>,
      <<"U+FBA5", <<"U+06D5", "U+0654">>>>, <<"U+FBA6", <<"U+06C1">>>>,
      <<"U+FBA7", <<"U+06C1">>>>, <<"U+FBA8", <<"U+06C1">>>>,
      <<"U+FBA9", <<"U+06C1">>>>, <<"U+FBAA", <<"U+06BE">>>>,
      <<"U+FBAB", <<"U+06BE">>>>, <<"U+FBAC", <<"U+06BE">>>>,
      <<"U+FBAD", <<"U+06BE">>>>, <<"U+FBAE", <<"U+06D2">>>>,
      <<"U+FBAF", <<"U+06D2">>>>, <<"U+FBB0", <<"U+06D2", "U+0654">>>>,
      <<"U+FBB1", <<"U+06D2", "U+0654">>>>, <<"U+FBD3", <<"U+06AD">>>>,
      <<"U+FBD4", <<"U+06AD">>>>, <<"U+FBD5", <<"U+06AD">>>>,
      <<"U+FBD6", <<"U+06AD">>>>, <<"U+FBD7", <<"U+06C7">>>>,
      <<"U+FBD8", <<"U+06C7">>>>, <<"U+FBD9", <<"U+06C6">>>>,
      <<"U+FBDA", <<"U+06C6">>>>, <<"U+FBDB", <<"U+06C8">>>>,
      <<"U+FBDC", <<"U+06C8">>>>, <<"U+FBDD", <<"U+06C7", "U+0674">>>>,
      <<"U+FBDE", <<"U+06CB">>>>, <<"U+FBDF", <<"U+06CB">>>>,
      <<"U+FBE0", <<"U+06C5">>>>, <<"U+FBE1", <<"U+06C5">>>>,
      <<"U+FBE2", <<"U+06C9">>>>, <<"U+FBE3", <<"U+06C9">>>>,
      <<"U+FBE4", <<"U+06D0">>>>, <<"U+FBE5", <<"U+06D0">>>>,
      <<"U+FBE6", <<"U+06D0">>>>, <<"U+FBE7", <<"U+06D0">>>>,
      <<"U+FBE8", <<"U+0649">>>>, <<"U+FBE9", <<"U+0649">>>>,
      <<"U+FBEA", <<"U+064A", "U+0654", "U+0627">>>>,
      <<"U+FBEB", <<"U+064A", "U+0654", "U+0627">>>>,
      <<"U+FBEC", <<"U+064A", "U+0654", "U+06D5">>>>,
      <<"U+FBED", <<"U+064A", "U+0654", "U+06D5">>>>,
      <<"U+FBEE", <<"U+064A", "U+0654", "U+0648">>>>,
      <<"U+FBEF", <<"U+064A", "U+0654", "U+0648">>>>,
      <<"U+FBF0", <<"U+064A", "U+0654", "U+06C7">>>>,
      <<"U+FBF1", <<"U+064A", "U+0654", "U+06C7">>>>,
      <<"U+FBF2", <<"U+064A", "U+0654", "U+06C6">>>>,
      <<"U+FBF3", <<"U+064A", "U+0654", "U+06C6">>>>,
      <<"U+FBF4", <<"U+064A", "U+0654", "U+06C8">>>>,
      <<"U+FBF5", <<"U+064A", "U+0654", "U+06C8">>>>,
      <<"U+FBF6", <<"U+064A", "U+0654", "U+06D0">>>>,
      <<"U+FBF7", <<"U+064A", "U+0654", "U+06D0">>>>,
      <<"U+FBF8", <<"U+064A", "U+0654", "U+06D0">>>>,
      <<"U+FBF9", <<"U+064A", "U+0654", "U+0649">>>>,
      <<"U+FBFA", <<"U+064A", "U+0654", "U+0649">>>>,
      <<"U+FBFB", <<"U+064A", "U+0654", "U+0649">>>>,
      <<"U+FBFC", <<"U+06CC">>>>, <<"U+FBFD", <<"U+06CC">>>>,
      <<"U+FBFE", <<"U+06CC">>>>, <<"U+FBFF", <<"U+06CC">>>>,
      <<"U+FC00", <<"U+064A", "U+0654", "U+062C">>>>,
      <<"U+FC01", <<"U+064A", "U+0654", "U+062D">>>>,
      <<"U+FC02", <<"U+064A", "U+0654", "U+0645">>>>,
      <<"U+FC03", <<"U+064A", "U+0654", "U+0649">>>>,
      <<"U+FC04", <<"U+064A", "U+0654", "U+064A">>>>,
      <<"U+FC05", <<"U+0628", "U+062C">>>>,
      <<"U+FC06", <<"U+0628", "U+062D">>>>,
      <<"U+FC07", <<"U+0628", "U+062E">>>>,
      <<"U+FC08", <<"U+0628", "U+0645">>>>,
      <<"U+FC09", <<"U+0628", "U+0649">>>>,
      <<"U+FC0A", <<"U+0628", "U+064A">>>>,
      <<"U+FC0B", <<"U+062A", "U+062C">>>>,
      <<"U+FC0C", <<"U+062A", "U+062D">>>>,
      <<"U+FC0D", <<"U+062A", "U+062E">>>>,
      <<"U+FC0E", <<"U+062A", "U+0645">>>>,
      <<"U+FC0F", <<"U+062A", "U+0649">>>>,
      <<"U+FC10", <<"U+062A", "U+064A">>>>,
      <<"U+FC11", <<"U+062B", "U+062C">>>>,
      <<"U+FC12", <<"U+062B", "U+0645">>>>,
      <<"U+FC13", <<"U+062B", "U+0649">>>>,
      <<"U+FC14", <<"U+062B", "U+064A">>>>,
      <<"U+FC15", <<"U+062C", "U+062D">>>>,
      <<"U+FC16", <<"U+062C", "U+0645">>>>,
      <<"U+FC17", <<"U+062D", "U+062C">>>>,
      <<"U+FC18", <<"U+062D", "U+0645">>>>,
      <<"U+FC19", <<"U+062E", "U+062C">>>>,
      <<"U+FC1A", <<"U+062E", "U+062D">>>>,
      <<"U+FC1B", <<"U+062E", "U+0645">>>>,
      <<"U+FC1C", <<"U+0633", "U+062C">>>>,
      <<"U+FC1D", <<"U+0633", "U+062D">>>>,
      <<"U+FC1E", <<"U+0633", "U+062E">>>>,
      <<"U+FC1F", <<"U+0633", "U+0645">>>>,
      <<"U+FC20", <<"U+0635", "U+062D">>>>,
      <<"U+FC21", <<"U+0635", "U+0645">>>>,
      <<"U+FC22", <<"U+0636", "U+062C">>>>,
      <<"U+FC23", <<"U+0636", "U+062D">>>>,
      <<"U+FC24", <<"U+0636", "U+062E">>>>,
      <<"U+FC25", <<"U+0636", "U+0645">>>>,
      <<"U+FC26", <<"U+0637", "U+062D">>>>,
      <<"U+FC27", <<"U+0637", "U+0645">>>>,
      <<"U+FC28", <<"U+0638", "U+0645">>>>,
      <<"U+FC29", <<"U+0639", "U+062C">>>>,
      <<"U+FC2A", <<"U+0639", "U+0645">>>>,
      <<"U+FC2B", <<"U+063A", "U+062C">>>>,
      <<"U+FC2C", <<"U+063A", "U+0645">>>>,
      <<"U+FC2D", <<"U+0641", "U+062C">>>>,
      <<"U+FC2E", <<"U+0641", "U+062D">>>>,
      <<"U+FC2F", <<"U+0641", "U+062E">>>>,
      <<"U+FC30", <<"U+0641", "U+0645">>>>,
      <<"U+FC31", <<"U+0641", "U+0649">>>>,
      <<"U+FC32", <<"U+0641", "U+064A">>>>,
      <<"U+FC33", <<"U+0642", "U+062D">>>>,
      <<"U+FC34", <<"U+0642", "U+0645">>>>,
      <<"U+FC35", <<"U+0642", "U+0649">>>>,
      <<"U+FC36", <<"U+0642", "U+064A">>>>,
      <<"U+FC37", <<"U+0643", "U+0627">>>>,
      <<"U+FC38", <<"U+0643", "U+062C">>>>,
      <<"U+FC39", <<"U+0643", "U+062D">>>>,
      <<"U+FC3A", <<"U+0643", "U+062E">>>>,
      <<"U+FC3B", <<"U+0643", "U+0644">>>>,
      <<"U+FC3C", <<"U+0643", "U+0645">>>>,
      <<"U+FC3D", <<"U+0643", "U+0649">>>>,
      <<"U+FC3E", <<"U+0643", "U+064A">>>>,
      <<"U+FC3F", <<"U+0644", "U+062C">>>>,
      <<"U+FC40", <<"U+0644", "U+062D">>>>,
      <<"U+FC41", <<"U+0644", "U+062E">>>>,
      <<"U+FC42", <<"U+0644", "U+0645">>>>,
      <<"U+FC43", <<"U+0644", "U+0649">>>>,
      <<"U+FC44", <<"U+0644", "U+064A">>>>,
      <<"U+FC45", <<"U+0645", "U+062C">>>>,
      <<"U+FC46", <<"U+0645", "U+062D">>>>,
      <<"U+FC47", <<"U+0645", "U+062E">>>>,
      <<"U+FC48", <<"U+0645", "U+0645">>>>,
      <<"U+FC49", <<"U+0645", "U+0649">>>>,
      <<"U+FC4A", <<"U+0645", "U+064A">>>>,
      <<"U+FC4B", <<"U+0646", "U+062C">>>>,
      <<"U+FC4C", <<"U+0646", "U+062D">>>>,
      <<"U+FC4D", <<"U+0646", "U+062E">>>>,
      <<"U+FC4E", <<"U+0646", "U+0645">>>>,
      <<"U+FC4F", <<"U+0646", "U+0649">>>>,
      <<"U+FC50", <<"U+0646", "U+064A">>>>,
      <<"U+FC51", <<"U+0647", "U+062C">>>>,
      <<"U+FC52", <<"U+0647", "U+0645">>>>,
      <<"U+FC53", <<"U+0647", "U+0649">>>>,
      <<"U+FC54", <<"U+0647", "U+064A">>>>,
      <<"U+FC55", <<"U+064A", "U+062C">>>>,
      <<"U+FC56", <<"U+064A", "U+062D">>>>,
      <<"U+FC57", <<"U+064A", "U+062E">>>>,
      <<"U+FC58", <<"U+064A", "U+0645">>>>,
      <<"U+FC59", <<"U+064A", "U+0649">>>>,
      <<"U+FC5A", <<"U+064A", "U+064A">>>>,
      <<"U+FC5B", <<"U+0630", "U+0670">>>>,
      <<"U+FC5C", <<"U+0631", "U+0670">>>>,
      <<"U+FC5D", <<"U+0649", "U+0670">>>>,
      <<"U+FC5E", <<" ", "U+064C", "U+0651">>>>,
      <<"U+FC5F", <<" ", "U+064D", "U+0651">>>>,
      <<"U+FC60", <<" ", "U+064E", "U+0651">>>>,
      <<"U+FC61", <<" ", "U+064F", "U+0651">>>>,
      <<"U+FC62", <<" ", "U+0650", "U+0651">>>>,
      <<"U+FC63", <<" ", "U+0651", "U+0670">>>>,
      <<"U+FC64", <<"U+064A", "U+0654", "U+0631">>>>,
      <<"U+FC65", <<"U+064A", "U+0654", "U+0632">>>>,
      <<"U+FC66", <<"U+064A", "U+0654", "U+0645">>>>,
      <<"U+FC67", <<"U+064A", "U+0654", "U+0646">>>>,
      <<"U+FC68", <<"U+064A", "U+0654", "U+0649">>>>,
      <<"U+FC69", <<"U+064A", "U+0654", "U+064A">>>>,
      <<"U+FC6A", <<"U+0628", "U+0631">>>>,
      <<"U+FC6B", <<"U+0628", "U+0632">>>>,
      <<"U+FC6C", <<"U+0628", "U+0645">>>>,
      <<"U+FC6D", <<"U+0628", "U+0646">>>>,
      <<"U+FC6E", <<"U+0628", "U+0649">>>>,
      <<"U+FC6F", <<"U+0628", "U+064A">>>>,
      <<"U+FC70", <<"U+062A", "U+0631">>>>,
      <<"U+FC71", <<"U+062A", "U+0632">>>>,
      <<"U+FC72", <<"U+062A", "U+0645">>>>,
      <<"U+FC73", <<"U+062A", "U+0646">>>>,
      <<"U+FC74", <<"U+062A", "U+0649">>>>,
      <<"U+FC75", <<"U+062A", "U+064A">>>>,
      <<"U+FC76", <<"U+062B", "U+0631">>>>,
      <<"U+FC77", <<"U+062B", "U+0632">>>>,
      <<"U+FC78", <<"U+062B", "U+0645">>>>,
      <<"U+FC79", <<"U+062B", "U+0646">>>>,
      <<"U+FC7A", <<"U+062B", "U+0649">>>>,
      <<"U+FC7B", <<"U+062B", "U+064A">>>>,
      <<"U+FC7C", <<"U+0641", "U+0649">>>>,
      <<"U+FC7D", <<"U+0641", "U+064A">>>>,
      <<"U+FC7E", <<"U+0642", "U+0649">>>>,
      <<"U+FC7F", <<"U+0642", "U+064A">>>>,
      <<"U+FC80", <<"U+0643", "U+0627">>>>,
      <<"U+FC81", <<"U+0643", "U+0644">>>>,
      <<"U+FC82", <<"U+0643", "U+0645">>>>,
      <<"U+FC83", <<"U+0643", "U+0649">>>>,
      <<"U+FC84", <<"U+0643", "U+064A">>>>,
      <<"U+FC85", <<"U+0644", "U+0645">>>>,
      <<"U+FC86", <<"U+0644", "U+0649">>>>,
      <<"U+FC87", <<"U+0644", "U+064A">>>>,
      <<"U+FC88", <<"U+0645", "U+0627">>>>,
      <<"U+FC89", <<"U+0645", "U+0645">>>>,
      <<"U+FC8A", <<"U+0646", "U+0631">>>>,
      <<"U+FC8B", <<"U+0646", "U+0632">>>>,
      <<"U+FC8C", <<"U+0646", "U+0645">>>>,
      <<"U+FC8D", <<"U+0646", "U+0646">>>>,
      <<"U+FC8E", <<"U+0646", "U+0649">>>>,
      <<"U+FC8F", <<"U+0646", "U+064A">>>>,
      <<"U+FC90", <<"U+0649", "U+0670">>>>,
      <<"U+FC91", <<"U+064A", "U+0631">>>>,
      <<"U+FC92", <<"U+064A", "U+0632">>>>,
      <<"U+FC93", <<"U+064A", "U+0645">>>>,
      <<"U+FC94", <<"U+064A", "U+0646">>>>,
      <<"U+FC95", <<"U+064A", "U+0649">>>>,
      <<"U+FC96", <<"U+064A", "U+064A">>>>,
      <<"U+FC97", <<"U+064A", "U+0654", "U+062C">>>>,
      <<"U+FC98", <<"U+064A", "U+0654", "U+062D">>>>,
      <<"U+FC99", <<"U+064A", "U+0654", "U+062E">>>>,
      <<"U+FC9A", <<"U+064A", "U+0654", "U+0645">>>>,
      <<"U+FC9B", <<"U+064A", "U+0654", "U+0647">>>>,
      <<"U+FC9C", <<"U+0628", "U+062C">>>>,
      <<"U+FC9D", <<"U+0628", "U+062D">>>>,
      <<"U+FC9E", <<"U+0628", "U+062E">>>>,
      <<"U+FC9F", <<"U+0628", "U+0645">>>>,
      <<"U+FCA0", <<"U+0628", "U+0647">>>>,
      <<"U+FCA1", <<"U+062A", "U+062C">>>>,
      <<"U+FCA2", <<"U+062A", "U+062D">>>>,
      <<"U+FCA3", <<"U+062A", "U+062E">>>>,
      <<"U+FCA4", <<"U+062A", "U+0645">>>>,
      <<"U+FCA5", <<"U+062A", "U+0647">>>>,
      <<"U+FCA6", <<"U+062B", "U+0645">>>>,
      <<"U+FCA7", <<"U+062C", "U+062D">>>>,
      <<"U+FCA8", <<"U+062C", "U+0645">>>>,
      <<"U+FCA9", <<"U+062D", "U+062C">>>>,
      <<"U+FCAA", <<"U+062D", "U+0645">>>>,
      <<"U+FCAB", <<"U+062E", "U+062C">>>>,
      <<"U+FCAC", <<"U+062E", "U+0645">>>>,
      <<"U+FCAD", <<"U+0633", "U+062C">>>>,
      <<"U+FCAE", <<"U+0633", "U+062D">>>>,
      <<"U+FCAF", <<"U+0633", "U+062E">>>>,
      <<"U+FCB0", <<"U+0633", "U+0645">>>>,
      <<"U+FCB1", <<"U+0635", "U+062D">>>>,
      <<"U+FCB2", <<"U+0635", "U+062E">>>>,
      <<"U+FCB3", <<"U+0635", "U+0645">>>>,
      <<"U+FCB4", <<"U+0636", "U+062C">>>>,
      <<"U+FCB5", <<"U+0636", "U+062D">>>>,
      <<"U+FCB6", <<"U+0636", "U+062E">>>>,
      <<"U+FCB7", <<"U+0636", "U+0645">>>>,
      <<"U+FCB8", <<"U+0637", "U+062D">>>>,
      <<"U+FCB9", <<"U+0638", "U+0645">>>>,
      <<"U+FCBA", <<"U+0639", "U+062C">>>>,
      <<"U+FCBB", <<"U+0639", "U+0645">>>>,
      <<"U+FCBC", <<"U+063A", "U+062C">>>>,
      <<"U+FCBD", <<"U+063A", "U+0645">>>>,
      <<"U+FCBE", <<"U+0641", "U+062C">>>>,
      <<"U+FCBF", <<"U+0641", "U+062D">>>>,
      <<"U+FCC0", <<"U+0641", "U+062E">>>>,
      <<"U+FCC1", <<"U+0641", "U+0645">>>>,
      <<"U+FCC2", <<"U+0642", "U+062D">>>>,
      <<"U+FCC3", <<"U+0642", "U+0645">>>>,
      <<"U+FCC4", <<"U+0643", "U+062C">>>>,
      <<"U+FCC5", <<"U+0643", "U+062D">>>>,
      <<"U+FCC6", <<"U+0643", "U+062E">>>>,
      <<"U+FCC7", <<"U+0643", "U+0644">>>>,
      <<"U+FCC8", <<"U+0643", "U+0645">>>>,
      <<"U+FCC9", <<"U+0644", "U+062C">>>>,
      <<"U+FCCA", <<"U+0644", "U+062D">>>>,
      <<"U+FCCB", <<"U+0644", "U+062E">>>>,
      <<"U+FCCC", <<"U+0644", "U+0645">>>>,
      <<"U+FCCD", <<"U+0644", "U+0647">>>>,
      <<"U+FCCE", <<"U+0645", "U+062C">>>>,
      <<"U+FCCF", <<"U+0645", "U+062D">>>>,
      <<"U+FCD0", <<"U+0645", "U+062E">>>>,
      <<"U+FCD1", <<"U+0645", "U+0645">>>>,
      <<"U+FCD2", <<"U+0646", "U+062C">>>>,
      <<"U+FCD3", <<"U+0646", "U+062D">>>>,
      <<"U+FCD4", <<"U+0646", "U+062E">>>>,
      <<"U+FCD5", <<"U+0646", "U+0645">>>>,
      <<"U+FCD6", <<"U+0646", "U+0647">>>>,
      <<"U+FCD7", <<"U+0647", "U+062C">>>>,
      <<"U+FCD8", <<"U+0647", "U+0645">>>>,
      <<"U+FCD9", <<"U+0647", "U+0670">>>>,
      <<"U+FCDA", <<"U+064A", "U+062C">>>>,
      <<"U+FCDB", <<"U+064A", "U+062D">>>>,
      <<"U+FCDC", <<"U+064A", "U+062E">>>>,
      <<"U+FCDD", <<"U+064A", "U+0645">>>>,
      <<"U+FCDE", <<"U+064A", "U+0647">>>>,
      <<"U+FCDF", <<"U+064A", "U+0654", "U+0645">>>>,
      <<"U+FCE0", <<"U+064A", "U+0654", "U+0647">>>>,
      <<"U+FCE1", <<"U+0628", "U+0645">>>>,
      <<"U+FCE2", <<"U+0628", "U+0647">>>>,
      <<"U+FCE3", <<"U+062A", "U+0645">>>>,
      <<"U+FCE4", <<"U+062A", "U+0647">>>>,
      <<"U+FCE5", <<"U+062B", "U+0645">>>>,
      <<"U+FCE6", <<"U+062B", "U+0647">>>>,
      <<"U+FCE7", <<"U+0633", "U+0645">>>>,
      <<"U+FCE8", <<"U+0633", "U+0647">>>>,
      <<"U+FCE9", <<"U+0634", "U+0645">>>>,
      <<"U+FCEA", <<"U+0634", "U+0647">>>>,
      <<"U+FCEB", <<"U+0643", "U+0644">>>>,
      <<"U+FCEC", <<"U+0643", "U+0645">>>>,
      <<"U+FCED", <<"U+0644", "U+0645">>>>,
      <<"U+FCEE", <<"U+0646", "U+0645">>>>,
      <<"U+FCEF", <<"U+0646", "U+0647">>>>,
      <<"U+FCF0", <<"U+064A", "U+0645">>>>,
      <<"U+FCF1", <<"U+064A", "U+0647">>>>,
      <<"U+FCF2", <<"U+0640", "U+064E", "U+0651">>>>,
      <<"U+FCF3", <<"U+0640", "U+064F", "U+0651">>>>,
      <<"U+FCF4", <<"U+0640", "U+0650", "U+0651">>>>,
      <<"U+FCF5", <<"U+0637", "U+0649">>>>,
      <<"U+FCF6", <<"U+0637", "U+064A">>>>,
      <<"U+FCF7", <<"U+0639", "U+0649">>>>,
      <<"U+FCF8", <<"U+0639", "U+064A">>>>,
      <<"U+FCF9", <<"U+063A", "U+0649">>>>,
      <<"U+FCFA", <<"U+063A", "U+064A">>>>,
      <<"U+FCFB", <<"U+0633", "U+0649">>>>,
      <<"U+FCFC", <<"U+0633", "U+064A">>>>,
      <<"U+FCFD", <<"U+0634", "U+0649">>>>,
      <<"U+FCFE", <<"U+0634", "U+064A">>>>,
      <<"U+FCFF", <<"U+062D", "U+0649">>>>,
      <<"U+FD00", <<"U+062D", "U+064A">>>>,
      <<"U+FD01", <<"U+062C", "U+0649">>>>,
      <<"U+FD02", <<"U+062C", "U+064A">>>>,
      <<"U+FD03", <<"U+062E", "U+0649">>>>,
      <<"U+FD04", <<"U+062E", "U+064A">>>>,
      <<"U+FD05", <<"U+0635", "U+0649">>>>,
      <<"U+FD06", <<"U+0635", "U+064A">>>>,
      <<"U+FD07", <<"U+0636", "U+0649">>>>,
      <<"U+FD08", <<"U+0636", "U+064A">>>>,
      <<"U+FD09", <<"U+0634", "U+062C">>>>,
      <<"U+FD0A", <<"U+0634", "U+062D">>>>,
      <<"U+FD0B", <<"U+0634", "U+062E">>>>,
      <<"U+FD0C", <<"U+0634", "U+0645">>>>,
      <<"U+FD0D", <<"U+0634", "U+0631">>>>,
      <<"U+FD0E", <<"U+0633", "U+0631">>>>,
      <<"U+FD0F", <<"U+0635", "U+0631">>>>,
      <<"U+FD10", <<"U+0636", "U+0631">>>>,
      <<"U+FD11", <<"U+0637", "U+0649">>>>,
      <<"U+FD12", <<"U+0637", "U+064A">>>>,
      <<"U+FD13", <<"U+0639", "U+0649">>>>,
      <<"U+FD14", <<"U+0639", "U+064A">>>>,
      <<"U+FD15", <<"U+063A", "U+0649">>>>,
      <<"U+FD16", <<"U+063A", "U+064A">>>>,
      <<"U+FD17", <<"U+0633", "U+0649">>>>,
      <<"U+FD18", <<"U+0633", "U+064A">>>>,
      <<"U+FD19", <<"U+0634", "U+0649">>>>,
      <<"U+FD1A", <<"U+0634", "U+064A">>>>,
      <<"U+FD1B", <<"U+062D", "U+0649">>>>,
      <<"U+FD1C", <<"U+062D", "U+064A">>>>,
      <<"U+FD1D", <<"U+062C", "U+0649">>>>,
      <<"U+FD1E", <<"U+062C", "U+064A">>>>,
      <<"U+FD1F", <<"U+062E", "U+0649">>>>,
      <<"U+FD20", <<"U+062E", "U+064A">>>>,
      <<"U+FD21", <<"U+0635", "U+0649">>>>,
      <<"U+FD22", <<"U+0635", "U+064A">>>>,
      <<"U+FD23", <<"U+0636", "U+0649">>>>,
      <<"U+FD24", <<"U+0636", "U+064A">>>>,
      <<"U+FD25", <<"U+0634", "U+062C">>>>,
      <<"U+FD26", <<"U+0634", "U+062D">>>>,
      <<"U+FD27", <<"U+0634", "U+062E">>>>,
      <<"U+FD28", <<"U+0634", "U+0645">>>>,
      <<"U+FD29", <<"U+0634", "U+0631">>>>,
      <<"U+FD2A", <<"U+0633", "U+0631">>>>,
      <<"U+FD2B", <<"U+0635", "U+0631">>>>,
      <<"U+FD2C", <<"U+0636", "U+0631">>>>,
      <<"U+FD2D", <<"U+0634", "U+062C">>>>,
      <<"U+FD2E", <<"U+0634", "U+062D">>>>,
      <<"U+FD2F", <<"U+0634", "U+062E">>>>,
      <<"U+FD30", <<"U+0634", "U+0645">>>>,
      <<"U+FD31", <<"U+0633", "U+0647">>>>,
      <<"U+FD32", <<"U+0634", "U+0647">>>>,
      <<"U+FD33", <<"U+0637", "U+0645">>>>,
      <<"U+FD34", <<"U+0633", "U+062C">>>>,
      <<"U+FD35", <<"U+0633", "U+062D">>>>,
      <<"U+FD36", <<"U+0633", "U+062E">>>>,
      <<"U+FD37", <<"U+0634", "U+062C">>>>,
      <<"U+FD38", <<"U+0634", "U+062D">>>>,
      <<"U+FD39", <<"U+0634", "U+062E">>>>,
      <<"U+FD3A", <<"U+0637", "U+0645">>>>,
      <<"U+FD3B", <<"U+0638", "U+0645">>>>,
      <<"U+FD3C", <<"U+0627", "U+064B">>>>,
      <<"U+FD3D", <<"U+0627", "U+064B">>>>,
      <<"U+FD50", <<"U+062A", "U+062C", "U+0645">>>>,
      <<"U+FD51", <<"U+062A", "U+062D", "U+062C">>>>,
      <<"U+FD52", <<"U+062A", "U+062D", "U+062C">>>>,
      <<"U+FD53", <<"U+062A", "U+062D", "U+0645">>>>,
      <<"U+FD54", <<"U+062A", "U+062E", "U+0645">>>>,
      <<"U+FD55", <<"U+062A", "U+0645", "U+062C">>>>,
      <<"U+FD56", <<"U+062A", "U+0645", "U+062D">>>>,
      <<"U+FD57", <<"U+062A", "U+0645", "U+062E">>>>,
      <<"U+FD58", <<"U+062C", "U+0645", "U+062D">>>>,
      <<"U+FD59", <<"U+062C", "U+0645", "U+062D">>>>,
      <<"U+FD5A", <<"U+062D", "U+0645", "U+064A">>>>,
      <<"U+FD5B", <<"U+062D", "U+0645", "U+0649">>>>,
      <<"U+FD5C", <<"U+0633", "U+062D", "U+062C">>>>,
      <<"U+FD5D", <<"U+0633", "U+062C", "U+062D">>>>,
      <<"U+FD5E", <<"U+0633", "U+062C", "U+0649">>>>,
      <<"U+FD5F", <<"U+0633", "U+0645", "U+062D">>>>,
      <<"U+FD60", <<"U+0633", "U+0645", "U+062D">>>>,
      <<"U+FD61", <<"U+0633", "U+0645", "U+062C">>>>,
      <<"U+FD62", <<"U+0633", "U+0645", "U+0645">>>>,
      <<"U+FD63", <<"U+0633", "U+0645", "U+0645">>>>,
      <<"U+FD64", <<"U+0635", "U+062D", "U+062D">>>>,
      <<"U+FD65", <<"U+0635", "U+062D", "U+062D">>>>,
      <<"U+FD66", <<"U+0635", "U+0645", "U+0645">>>>,
      <<"U+FD67", <<"U+0634", "U+062D", "U+0645">>>>,
      <<"U+FD68", <<"U+0634", "U+062D", "U+0645">>>>,
      <<"U+FD69", <<"U+0634", "U+062C", "U+064A">>>>,
      <<"U+FD6A", <<"U+0634", "U+0645", "U+062E">>>>,
      <<"U+FD6B", <<"U+0634", "U+0645", "U+062E">>>>,
      <<"U+FD6C", <<"U+0634", "U+0645", "U+0645">>>>,
      <<"U+FD6D", <<"U+0634", "U+0645", "U+0645">>>>,
      <<"U+FD6E", <<"U+0636", "U+062D", "U+0649">>>>,
      <<"U+FD6F", <<"U+0636", "U+062E", "U+0645">>>>,
      <<"U+FD70", <<"U+0636", "U+062E", "U+0645">>>>,
      <<"U+FD71", <<"U+0637", "U+0645", "U+062D">>>>,
      <<"U+FD72", <<"U+0637", "U+0645", "U+062D">>>>,
      <<"U+FD73", <<"U+0637", "U+0645", "U+0645">>>>,
      <<"U+FD74", <<"U+0637", "U+0645", "U+064A">>>>,
      <<"U+FD75", <<"U+0639", "U+062C", "U+0645">>>>,
      <<"U+FD76", <<"U+0639", "U+0645", "U+0645">>>>,
      <<"U+FD77", <<"U+0639", "U+0645", "U+0645">>>>,
      <<"U+FD78", <<"U+0639", "U+0645", "U+0649">>>>,
      <<"U+FD79", <<"U+063A", "U+0645", "U+0645">>>>,
      <<"U+FD7A", <<"U+063A", "U+0645", "U+064A">>>>,
      <<"U+FD7B", <<"U+063A", "U+0645", "U+0649">>>>,
      <<"U+FD7C", <<"U+0641", "U+062E", "U+0645">>>>,
      <<"U+FD7D", <<"U+0641", "U+062E", "U+0645">>>>,
      <<"U+FD7E", <<"U+0642", "U+0645", "U+062D">>>>,
      <<"U+FD7F", <<"U+0642", "U+0645", "U+0645">>>>,
      <<"U+FD80", <<"U+0644", "U+062D", "U+0645">>>>,
      <<"U+FD81", <<"U+0644", "U+062D", "U+064A">>>>,
      <<"U+FD82", <<"U+0644", "U+062D", "U+0649">>>>,
      <<"U+FD83", <<"U+0644", "U+062C", "U+062C">>>>,
      <<"U+FD84", <<"U+0644", "U+062C", "U+062C">>>>,
      <<"U+FD85", <<"U+0644", "U+062E", "U+0645">>>>,
      <<"U+FD86", <<"U+0644", "U+062E", "U+0645">>>>,
      <<"U+FD87", <<"U+0644", "U+0645", "U+062D">>>>,
      <<"U+FD88", <<"U+0644", "U+0645", "U+062D">>>>,
      <<"U+FD89", <<"U+0645", "U+062D", "U+062C">>>>,
      <<"U+FD8A", <<"U+0645", "U+062D", "U+0645">>>>,
      <<"U+FD8B", <<"U+0645", "U+062D", "U+064A">>>>,
      <<"U+FD8C", <<"U+0645", "U+062C", "U+062D">>>>,
      <<"U+FD8D", <<"U+0645", "U+062C", "U+0645">>>>,
      <<"U+FD8E", <<"U+0645", "U+062E", "U+062C">>>>,
      <<"U+FD8F", <<"U+0645", "U+062E", "U+0645">>>>,
      <<"U+FD92", <<"U+0645", "U+062C", "U+062E">>>>,
      <<"U+FD93", <<"U+0647", "U+0645", "U+062C">>>>,
      <<"U+FD94", <<"U+0647", "U+0645", "U+0645">>>>,
      <<"U+FD95", <<"U+0646", "U+062D", "U+0645">>>>,
      <<"U+FD96", <<"U+0646", "U+062D", "U+0649">>>>,
      <<"U+FD97", <<"U+0646", "U+062C", "U+0645">>>>,
      <<"U+FD98", <<"U+0646", "U+062C", "U+0645">>>>,
      <<"U+FD99", <<"U+0646", "U+062C", "U+0649">>>>,
      <<"U+FD9A", <<"U+0646", "U+0645", "U+064A">>>>,
      <<"U+FD9B", <<"U+0646", "U+0645", "U+0649">>>>,
      <<"U+FD9C", <<"U+064A", "U+0645", "U+0645">>>>,
      <<"U+FD9D", <<"U+064A", "U+0645", "U+0645">>>>,
      <<"U+FD9E", <<"U+0628", "U+062E", "U+064A">>>>,
      <<"U+FD9F", <<"U+062A", "U+062C", "U+064A">>>>,
      <<"U+FDA0", <<"U+062A", "U+062C", "U+0649">>>>,
      <<"U+FDA1", <<"U+062A", "U+062E", "U+064A">>>>,
      <<"U+FDA2", <<"U+062A", "U+062E", "U+0649">>>>,
      <<"U+FDA3", <<"U+062A", "U+0645", "U+064A">>>>,
      <<"U+FDA4", <<"U+062A", "U+0645", "U+0649">>>>,
      <<"U+FDA5", <<"U+062C", "U+0645", "U+064A">>>>,
      <<"U+FDA6", <<"U+062C", "U+062D", "U+0649">>>>,
      <<"U+FDA7", <<"U+062C", "U+0645", "U+0649">>>>,
      <<"U+FDA8", <<"U+0633", "U+062E", "U+0649">>>>,
      <<"U+FDA9", <<"U+0635", "U+062D", "U+064A">>>>,
      <<"U+FDAA", <<"U+0634", "U+062D", "U+064A">>>>,
      <<"U+FDAB", <<"U+0636", "U+062D", "U+064A">>>>,
      <<"U+FDAC", <<"U+0644", "U+062C", "U+064A">>>>,
      <<"U+FDAD", <<"U+0644", "U+0645", "U+064A">>>>,
      <<"U+FDAE", <<"U+064A", "U+062D", "U+064A">>>>,
      <<"U+FDAF", <<"U+064A", "U+062C", "U+064A">>>>,
      <<"U+FDB0", <<"U+064A", "U+0645", "U+064A">>>>,
      <<"U+FDB1", <<"U+0645", "U+0645", "U+064A">>>>,
      <<"U+FDB2", <<"U+0642", "U+0645", "U+064A">>>>,
      <<"U+FDB3", <<"U+0646", "U+062D", "U+064A">>>>,
      <<"U+FDB4", <<"U+0642", "U+0645", "U+062D">>>>,
      <<"U+FDB5", <<"U+0644", "U+062D", "U+0645">>>>,
      <<"U+FDB6", <<"U+0639", "U+0645", "U+064A">>>>,
      <<"U+FDB7", <<"U+0643", "U+0645", "U+064A">>>>,
      <<"U+FDB8", <<"U+0646", "U+062C", "U+062D">>>>,
      <<"U+FDB9", <<"U+0645", "U+062E", "U+064A">>>>,
      <<"U+FDBA", <<"U+0644", "U+062C", "U+0645">>>>,
      <<"U+FDBB", <<"U+0643", "U+0645", "U+0645">>>>,
      <<"U+FDBC", <<"U+0644", "U+062C", "U+0645">>>>,
      <<"U+FDBD", <<"U+0646", "U+062C", "U+062D">>>>,
      <<"U+FDBE", <<"U+062C", "U+062D", "U+064A">>>>,
      <<"U+FDBF", <<"U+062D", "U+062C", "U+064A">>>>,
      <<"U+FDC0", <<"U+0645", "U+062C", "U+064A">>>>,
      <<"U+FDC1", <<"U+0641", "U+0645", "U+064A">>>>,
      <<"U+FDC2", <<"U+0628", "U+062D", "U+064A">>>>,
      <<"U+FDC3", <<"U+0643", "U+0645", "U+0645">>>>,
      <<"U+FDC4", <<"U+0639", "U+062C", "U+0645">>>>,
      <<"U+FDC5", <<"U+0635", "U+0645", "U+0645">>>>,
      <<"U+FDC6", <<"U+0633", "U+062E", "U+064A">>>>,
      <<"U+FDC7", <<"U+0646", "U+062C", "U+064A">>>>,
      <<"U+FDF0", <<"U+0635", "U+0644", "U+06D2">>>>,
      <<"U+FDF1", <<"U+0642", "U+0644", "U+06D2">>>>,
      <<"U+FDF2", <<"U+0627", "U+0644", "U+0644", "U+0647">>>>,
      <<"U+FDF3", <<"U+0627", "U+0643", "U+0628", "U+0631">>>>,
      <<"U+FDF4", <<"U+0645", "U+062D", "U+0645", "U+062F">>>>,
      <<"U+FDF5", <<"U+0635", "U+0644", "U+0639", "U+0645">>>>,
      <<"U+FDF6", <<"U+0631", "U+0633", "U+0648", "U+0644">>>>,
      <<"U+FDF7", <<"U+0639", "U+0644", "U+064A", "U+0647">>>>,
      <<"U+FDF8", <<"U+0648", "U+0633", "U+0644", "U+0645">>>>,
      <<"U+FDF9", <<"U+0635", "U+0644", "U+0649">>>>,
      <<"U+FDFA", <<"U+0635", "U+0644", "U+0649", " ", "U+0627", "U+0644", "U+0644", "U+0647", " ", "U+0639", "U+0644", "U+064A", "U+0647", " ", "U+0648", "U+0633", "U+0644", "U+0645">>>>,
      <<"U+FDFB", <<"U+062C", "U+0644", " ", "U+062C", "U+0644", "U+0627", "U+0644", "U+0647">>>>,
      <<"U+FDFC", <<"U+0631", "U+06CC", "U+0627", "U+0644">>>>,
      <<"U+FE10", <<",">>>>, <<"U+FE11", <<"U+3001">>>>,
      <<"U+FE12", <<"U+3002">>>>, <<"U+FE13", <<":">>>>,
      <<"U+FE14", <<";">>>>, <<"U+FE15", <<"!">>>>, <<"U+FE16", <<"?">>>>,
      <<"U+FE17", <<"U+3016">>>>, <<"U+FE18", <<"U+3017">>>>,
      <<"U+FE19", <<".", ".", ".">>>>, <<"U+FE30", <<".", ".">>>>,
      <<"U+FE31", <<"U+2014">>>>, <<"U+FE32", <<"U+2013">>>>,
      <<"U+FE33", <<"_">>>>, <<"U+FE34", <<"_">>>>, <<"U+FE35", <<"(">>>>,
      <<"U+FE36", <<")">>>>, <<"U+FE37", <<"{">>>>, <<"U+FE38", <<"}">>>>,
      <<"U+FE39", <<"U+3014">>>>, <<"U+FE3A", <<"U+3015">>>>,
      <<"U+FE3B", <<"U+3010">>>>, <<"U+FE3C", <<"U+3011">>>>,
      <<"U+FE3D", <<"U+300A">>>>, <<"U+FE3E", <<"U+300B">>>>,
      <<"U+FE3F", <<"U+3008">>>>, <<"U+FE40", <<"U+3009">>>>,
      <<"U+FE41", <<"U+300C">>>>, <<"U+FE42", <<"U+300D">>>>,
      <<"U+FE43", <<"U+300E">>>>, <<"U+FE44", <<"U+300F">>>>,
      <<"U+FE47", <<"[">>>>, <<"U+FE48", <<"]">>>>,
      <<"U+FE49", <<" ", "U+0305">>>>, <<"U+FE4A", <<" ", "U+0305">>>>,
      <<"U+FE4B", <<" ", "U+0305">>>>, <<"U+FE4C", <<" ", "U+0305">>>>,
      <<"U+FE4D", <<"_">>>>, <<"U+FE4E", <<"_">>>>, <<"U+FE4F", <<"_">>>>,
      <<"U+FE50", <<",">>>>, <<"U+FE51", <<"U+3001">>>>,
      <<"U+FE52", <<".">>>>, <<"U+FE54", <<";">>>>, <<"U+FE55", <<":">>>>,
      <<"U+FE56", <<"?">>>>, <<"U+FE57", <<"!">>>>,
      <<"U+FE58", <<"U+2014">>>>, <<"U+FE59", <<"(">>>>,
      <<"U+FE5A", <<")">>>>, <<"U+FE5B", <<"{">>>>, <<"U+FE5C", <<"}">>>>,
      <<"U+FE5D", <<"U+3014">>>>, <<"U+FE5E", <<"U+3015">>>>,
      <<"U+FE5F", <<"#">>>>, <<"U+FE60", <<"&">>>>, <<"U+FE61", <<"*">>>>,
      <<"U+FE62", <<"+">>>>, <<"U+FE63", <<"-">>>>, <<"U+FE64", <<"<">>>>,
      <<"U+FE65", <<">">>>>, <<"U+FE66", <<"=">>>>, <<"U+FE68", <<"\\">>>>,
      <<"U+FE69", <<"$">>>>, <<"U+FE6A", <<"%">>>>, <<"U+FE6B", <<"@">>>>,
      <<"U+FE70", <<" ", "U+064B">>>>, <<"U+FE71", <<"U+0640", "U+064B">>>>,
      <<"U+FE72", <<" ", "U+064C">>>>, <<"U+FE74", <<" ", "U+064D">>>>,
      <<"U+FE76", <<" ", "U+064E">>>>, <<"U+FE77", <<"U+0640", "U+064E">>>>,
      <<"U+FE78", <<" ", "U+064F">>>>, <<"U+FE79", <<"U+0640", "U+064F">>>>,
      <<"U+FE7A", <<" ", "U+0650">>>>, <<"U+FE7B", <<"U+0640", "U+0650">>>>,
      <<"U+FE7C", <<" ", "U+0651">>>>, <<"U+FE7D", <<"U+0640", "U+0651">>>>,
      <<"U+FE7E", <<" ", "U+0652">>>>, <<"U+FE7F", <<"U+0640", "U+0652">>>>,
      <<"U+FE80", <<"U+0621">>>>, <<"U+FE81", <<"U+0627", "U+0653">>>>,
      <<"U+FE82", <<"U+0627", "U+0653">>>>,
      <<"U+FE83", <<"U+0627", "U+0654">>>>,
      <<"U+FE84", <<"U+0627", "U+0654">>>>,
      <<"U+FE85", <<"U+0648", "U+0654">>>>,
      <<"U+FE86", <<"U+0648", "U+0654">>>>,
      <<"U+FE87", <<"U+0627", "U+0655">>>>,
      <<"U+FE88", <<"U+0627", "U+0655">>>>,
      <<"U+FE89", <<"U+064A", "U+0654">>>>,
      <<"U+FE8A", <<"U+064A", "U+0654">>>>,
      <<"U+FE8B", <<"U+064A", "U+0654">>>>,
      <<"U+FE8C", <<"U+064A", "U+0654">>>>, <<"U+FE8D", <<"U+0627">>>>,
      <<"U+FE8E", <<"U+0627">>>>, <<"U+FE8F", <<"U+0628">>>>,
      <<"U+FE90", <<"U+0628">>>>, <<"U+FE91", <<"U+0628">>>>,
      <<"U+FE92", <<"U+0628">>>>, <<"U+FE93", <<"U+0629">>>>,
      <<"U+FE94", <<"U+0629">>>>, <<"U+FE95", <<"U+062A">>>>,
      <<"U+FE96", <<"U+062A">>>>, <<"U+FE97", <<"U+062A">>>>,
      <<"U+FE98", <<"U+062A">>>>, <<"U+FE99", <<"U+062B">>>>,
      <<"U+FE9A", <<"U+062B">>>>, <<"U+FE9B", <<"U+062B">>>>,
      <<"U+FE9C", <<"U+062B">>>>, <<"U+FE9D", <<"U+062C">>>>,
      <<"U+FE9E", <<"U+062C">>>>, <<"U+FE9F", <<"U+062C">>>>,
      <<"U+FEA0", <<"U+062C">>>>, <<"U+FEA1", <<"U+062D">>>>,
      <<"U+FEA2", <<"U+062D">>>>, <<"U+FEA3", <<"U+062D">>>>,
      <<"U+FEA4", <<"U+062D">>>>, <<"U+FEA5", <<"U+062E">>>>,
      <<"U+FEA6", <<"U+062E">>>>, <<"U+FEA7", <<"U+062E">>>>,
      <<"U+FEA8", <<"U+062E">>>>, <<"U+FEA9", <<"U+062F">>>>,
      <<"U+FEAA", <<"U+062F">>>>, <<"U+FEAB", <<"U+0630">>>>,
      <<"U+FEAC", <<"U+0630">>>>, <<"U+FEAD", <<"U+0631">>>>,
      <<"U+FEAE", <<"U+0631">>>>, <<"U+FEAF", <<"U+0632">>>>,
      <<"U+FEB0", <<"U+0632">>>>, <<"U+FEB1", <<"U+0633">>>>,
      <<"U+FEB2", <<"U+0633">>>>, <<"U+FEB3", <<"U+0633">>>>,
      <<"U+FEB4", <<"U+0633">>>>, <<"U+FEB5", <<"U+0634">>>>,
      <<"U+FEB6", <<"U+0634">>>>, <<"U+FEB7", <<"U+0634">>>>,
      <<"U+FEB8", <<"U+0634">>>>, <<"U+FEB9", <<"U+0635">>>>,
      <<"U+FEBA", <<"U+0635">>>>, <<"U+FEBB", <<"U+0635">>>>,
      <<"U+FEBC", <<"U+0635">>>>, <<"U+FEBD", <<"U+0636">>>>,
      <<"U+FEBE", <<"U+0636">>>>, <<"U+FEBF", <<"U+0636">>>>,
      <<"U+FEC0", <<"U+0636">>>>, <<"U+FEC1", <<"U+0637">>>>,
      <<"U+FEC2", <<"U+0637">>>>, <<"U+FEC3", <<"U+0637">>>>,
      <<"U+FEC4", <<"U+0637">>>>, <<"U+FEC5", <<"U+0638">>>>,
      <<"U+FEC6", <<"U+0638">>>>, <<"U+FEC7", <<"U+0638">>>>,
      <<"U+FEC8", <<"U+0638">>>>, <<"U+FEC9", <<"U+0639">>>>,
      <<"U+FECA", <<"U+0639">>>>, <<"U+FECB", <<"U+0639">>>>,
      <<"U+FECC", <<"U+0639">>>>, <<"U+FECD", <<"U+063A">>>>,
      <<"U+FECE", <<"U+063A">>>>, <<"U+FECF", <<"U+063A">>>>,
      <<"U+FED0", <<"U+063A">>>>, <<"U+FED1", <<"U+0641">>>>,
      <<"U+FED2", <<"U+0641">>>>, <<"U+FED3", <<"U+0641">>>>,
      <<"U+FED4", <<"U+0641">>>>, <<"U+FED5", <<"U+0642">>>>,
      <<"U+FED6", <<"U+0642">>>>, <<"U+FED7", <<"U+0642">>>>,
      <<"U+FED8", <<"U+0642">>>>, <<"U+FED9", <<"U+0643">>>>,
      <<"U+FEDA", <<"U+0643">>>>, <<"U+FEDB", <<"U+0643">>>>,
      <<"U+FEDC", <<"U+0643">>>>, <<"U+FEDD", <<"U+0644">>>>,
      <<"U+FEDE", <<"U+0644">>>>, <<"U+FEDF", <<"U+0644">>>>,
      <<"U+FEE0", <<"U+0644">>>>, <<"U+FEE1", <<"U+0645">>>>,
      <<"U+FEE2", <<"U+0645">>>>, <<"U+FEE3", <<"U+0645">>>>,
      <<"U+FEE4", <<"U+0645">>>>, <<"U+FEE5", <<"U+0646">>>>,
      <<"U+FEE6", <<"U+0646">>>>, <<"U+FEE7", <<"U+0646">>>>,
      <<"U+FEE8", <<"U+0646">>>>, <<"U+FEE9", <<"U+0647">>>>,
      <<"U+FEEA", <<"U+0647">>>>, <<"U+FEEB", <<"U+0647">>>>,
      <<"U+FEEC", <<"U+0647">>>>, <<"U+FEED", <<"U+0648">>>>,
      <<"U+FEEE", <<"U+0648">>>>, <<"U+FEEF", <<"U+0649">>>>,
      <<"U+FEF0", <<"U+0649">>>>, <<"U+FEF1", <<"U+064A">>>>,
      <<"U+FEF2", <<"U+064A">>>>, <<"U+FEF3", <<"U+064A">>>>,
      <<"U+FEF4", <<"U+064A">>>>,
      <<"U+FEF5", <<"U+0644", "U+0627", "U+0653">>>>,
      <<"U+FEF6", <<"U+0644", "U+0627", "U+0653">>>>,
      <<"U+FEF7", <<"U+0644", "U+0627", "U+0654">>>>,
      <<"U+FEF8", <<"U+0644", "U+0627", "U+0654">>>>,
      <<"U+FEF9", <<"U+0644", "U+0627", "U+0655">>>>,
      <<"U+FEFA", <<"U+0644", "U+0627", "U+0655">>>>,
      <<"U+FEFB", <<"U+0644", "U+0627">>>>,
      <<"U+FEFC", <<"U+0644", "U+0627">>>>, <<"U+FF01", <<"!">>>>,
      <<"U+FF02", <<"\"">>>>, <<"U+FF03", <<"#">>>>, <<"U+FF04", <<"$">>>>,
      <<"U+FF05", <<"%">>>>, <<"U+FF06", <<"&">>>>, <<"U+FF07", <<"'">>>>,
      <<"U+FF08", <<"(">>>>, <<"U+FF09", <<")">>>>, <<"U+FF0A", <<"*">>>>,
      <<"U+FF0B", <<"+">>>>, <<"U+FF0C", <<",">>>>, <<"U+FF0D", <<"-">>>>,
      <<"U+FF0E", <<".">>>>, <<"U+FF0F", <<"/">>>>, <<"U+FF10", <<"0">>>>,
      <<"U+FF11", <<"1">>>>, <<"U+FF12", <<"2">>>>, <<"U+FF13", <<"3">>>>,
      <<"U+FF14", <<"4">>>>, <<"U+FF15", <<"5">>>>, <<"U+FF16", <<"6">>>>,
      <<"U+FF17", <<"7">>>>, <<"U+FF18", <<"8">>>>, <<"U+FF19", <<"9">>>>,
      <<"U+FF1A", <<":">>>>, <<"U+FF1B", <<";">>>>, <<"U+FF1C", <<"<">>>>,
      <<"U+FF1D", <<"=">>>>, <<"U+FF1E", <<">">>>>, <<"U+FF1F", <<"?">>>>,
      <<"U+FF20", <<"@">>>>, <<"U+FF21", <<"A">>>>, <<"U+FF22", <<"B">>>>,
      <<"U+FF23", <<"C">>>>, <<"U+FF24", <<"D">>>>, <<"U+FF25", <<"E">>>>,
      <<"U+FF26", <<"F">>>>, <<"U+FF27", <<"G">>>>, <<"U+FF28", <<"H">>>>,
      <<"U+FF29", <<"I">>>>, <<"U+FF2A", <<"J">>>>, <<"U+FF2B", <<"K">>>>,
      <<"U+FF2C", <<"L">>>>, <<"U+FF2D", <<"M">>>>, <<"U+FF2E", <<"N">>>>,
      <<"U+FF2F", <<"O">>>>, <<"U+FF30", <<"P">>>>, <<"U+FF31", <<"Q">>>>,
      <<"U+FF32", <<"R">>>>, <<"U+FF33", <<"S">>>>, <<"U+FF34", <<"T">>>>,
      <<"U+FF35", <<"U">>>>, <<"U+FF36", <<"V">>>>, <<"U+FF37", <<"W">>>>,
      <<"U+FF38", <<"X">>>>, <<"U+FF39", <<"Y">>>>, <<"U+FF3A", <<"Z">>>>,
      <<"U+FF3B", <<"[">>>>, <<"U+FF3C", <<"\\">>>>, <<"U+FF3D", <<"]">>>>,
      <<"U+FF3E", <<"^">>>>, <<"U+FF3F", <<"_">>>>,
      <<"U+FF40", <<"U+0060">>>>, <<"U+FF41", <<"a">>>>,
      <<"U+FF42", <<"b">>>>, <<"U+FF43", <<"c">>>>, <<"U+FF44", <<"d">>>>,
      <<"U+FF45", <<"e">>>>, <<"U+FF46", <<"f">>>>, <<"U+FF47", <<"g">>>>,
      <<"U+FF48", <<"h">>>>, <<"U+FF49", <<"i">>>>, <<"U+FF4A", <<"j">>>>,
      <<"U+FF4B", <<"k">>>>, <<"U+FF4C", <<"l">>>>, <<"U+FF4D", <<"m">>>>,
      <<"U+FF4E", <<"n">>>>, <<"U+FF4F", <<"o">>>>, <<"U+FF50", <<"p">>>>,
      <<"U+FF51", <<"q">>>>, <<"U+FF52", <<"r">>>>, <<"U+FF53", <<"s">>>>,
      <<"U+FF54", <<"t">>>>, <<"U+FF55", <<"u">>>>, <<"U+FF56", <<"v">>>>,
      <<"U+FF57", <<"w">>>>, <<"U+FF58", <<"x">>>>, <<"U+FF59", <<"y">>>>,
      <<"U+FF5A", <<"z">>>>, <<"U+FF5B", <<"{">>>>, <<"U+FF5C", <<"|">>>>,
      <<"U+FF5D", <<"}">>>>, <<"U+FF5E", <<"~">>>>,
      <<"U+FF5F", <<"U+2985">>>>, <<"U+FF60", <<"U+2986">>>>,
      <<"U+FF61", <<"U+3002">>>>, <<"U+FF62", <<"U+300C">>>>,
      <<"U+FF63", <<"U+300D">>>>, <<"U+FF64", <<"U+3001">>>>,
      <<"U+FF65", <<"U+30FB">>>>, <<"U+FF66", <<"U+30F2">>>>,
      <<"U+FF67", <<"U+30A1">>>>, <<"U+FF68", <<"U+30A3">>>>,
      <<"U+FF69", <<"U+30A5">>>>, <<"U+FF6A", <<"U+30A7">>>>,
      <<"U+FF6B", <<"U+30A9">>>>, <<"U+FF6C", <<"U+30E3">>>>,
      <<"U+FF6D", <<"U+30E5">>>>, <<"U+FF6E", <<"U+30E7">>>>,
      <<"U+FF6F", <<"U+30C3">>>>, <<"U+FF70", <<"U+30FC">>>>,
      <<"U+FF71", <<"U+30A2">>>>, <<"U+FF72", <<"U+30A4">>>>,
      <<"U+FF73", <<"U+30A6">>>>, <<"U+FF74", <<"U+30A8">>>>,
      <<"U+FF75", <<"U+30AA">>>>, <<"U+FF76", <<"U+30AB">>>>,
      <<"U+FF77", <<"U+30AD">>>>, <<"U+FF78", <<"U+30AF">>>>,
      <<"U+FF79", <<"U+30B1">>>>, <<"U+FF7A", <<"U+30B3">>>>,
      <<"U+FF7B", <<"U+30B5">>>>, <<"U+FF7C", <<"U+30B7">>>>,
      <<"U+FF7D", <<"U+30B9">>>>, <<"U+FF7E", <<"U+30BB">>>>,
      <<"U+FF7F", <<"U+30BD">>>>, <<"U+FF80", <<"U+30BF">>>>,
      <<"U+FF81", <<"U+30C1">>>>, <<"U+FF82", <<"U+30C4">>>>,
      <<"U+FF83", <<"U+30C6">>>>, <<"U+FF84", <<"U+30C8">>>>,
      <<"U+FF85", <<"U+30CA">>>>, <<"U+FF86", <<"U+30CB">>>>,
      <<"U+FF87", <<"U+30CC">>>>, <<"U+FF88", <<"U+30CD">>>>,
      <<"U+FF89", <<"U+30CE">>>>, <<"U+FF8A", <<"U+30CF">>>>,
      <<"U+FF8B", <<"U+30D2">>>>, <<"U+FF8C", <<"U+30D5">>>>,
      <<"U+FF8D", <<"U+30D8">>>>, <<"U+FF8E", <<"U+30DB">>>>,
      <<"U+FF8F", <<"U+30DE">>>>, <<"U+FF90", <<"U+30DF">>>>,
      <<"U+FF91", <<"U+30E0">>>>, <<"U+FF92", <<"U+30E1">>>>,
      <<"U+FF93", <<"U+30E2">>>>, <<"U+FF94", <<"U+30E4">>>>,
      <<"U+FF95", <<"U+30E6">>>>, <<"U+FF96", <<"U+30E8">>>>,
      <<"U+FF97", <<"U+30E9">>>>, <<"U+FF98", <<"U+30EA">>>>,
      <<"U+FF99", <<"U+30EB">>>>, <<"U+FF9A", <<"U+30EC">>>>,
      <<"U+FF9B", <<"U+30ED">>>>, <<"U+FF9C", <<"U+30EF">>>>,
      <<"U+FF9D", <<"U+30F3">>>>, <<"U+FF9E", <<"U+3099">>>>,
      <<"U+FF9F", <<"U+309A">>>>, <<"U+FFA0", <<"U+1160">>>>,
      <<"U+FFA1", <<"U+1100">>>>, <<"U+FFA2", <<"U+1101">>>>,
      <<"U+FFA3", <<"U+11AA">>>>, <<"U+FFA4", <<"U+1102">>>>,
      <<"U+FFA5", <<"U+11AC">>>>, <<"U+FFA6", <<"U+11AD">>>>,
      <<"U+FFA7", <<"U+1103">>>>, <<"U+FFA8", <<"U+1104">>>>,
      <<"U+FFA9", <<"U+1105">>>>, <<"U+FFAA", <<"U+11B0">>>>,
      <<"U+FFAB", <<"U+11B1">>>>, <<"U+FFAC", <<"U+11B2">>>>,
      <<"U+FFAD", <<"U+11B3">>>>, <<"U+FFAE", <<"U+11B4">>>>,
      <<"U+FFAF", <<"U+11B5">>>>, <<"U+FFB0", <<"U+111A">>>>,
      <<"U+FFB1", <<"U+1106">>>>, <<"U+FFB2", <<"U+1107">>>>,
      <<"U+FFB3", <<"U+1108">>>>, <<"U+FFB4", <<"U+1121">>>>,
      <<"U+FFB5", <<"U+1109">>>>, <<"U+FFB6", <<"U+110A">>>>,
      <<"U+FFB7", <<"U+110B">>>>, <<"U+FFB8", <<"U+110C">>>>,
      <<"U+FFB9", <<"U+110D">>>>, <<"U+FFBA", <<"U+110E">>>>,
      <<"U+FFBB", <<"U+110F">>>>, <<"U+FFBC", <<"U+1110">>>>,
      <<"U+FFBD", <<"U+1111">>>>, <<"U+FFBE", <<"U+1112">>>>,
      <<"U+FFC2", <<"U+1161">>>>, <<"U+FFC3", <<"U+1162">>>>,
      <<"U+FFC4", <<"U+1163">>>>, <<"U+FFC5", <<"U+1164">>>>,
      <<"U+FFC6", <<"U+1165">>>>, <<"U+FFC7", <<"U+1166">>>>,
      <<"U+FFCA", <<"U+1167">>>>, <<"U+FFCB", <<"U+1168">>>>,
      <<"U+FFCC", <<"U+1169">>>>, <<"U+FFCD", <<"U+116A">>>>,
      <<"U+FFCE", <<"U+116B">>>>, <<"U+FFCF", <<"U+116C">>>>,
      <<"U+FFD2", <<"U+116D">>>>, <<"U+FFD3", <<"U+116E">>>>,
      <<"U+FFD4", <<"U+116F">>>>, <<"U+FFD5", <<"U+1170">>>>,
      <<"U+FFD6", <<"U+1171">>>>, <<"U+FFD7", <<"U+1172">>>>,
      <<"U+FFDA", <<"U+1173">>>>, <<"U+FFDB", <<"U+1174">>>>,
      <<"U+FFDC", <<"U+1175">>>>, <<"U+FFE0", <<"U+00A2">>>>,
      <<"U+FFE1", <<"U+00A3">>>>, <<"U+FFE2", <<"U+00AC">>>>,
      <<"U+FFE3", <<" ", "U+0304">>>>, <<"U+FFE4", <<"U+00A6">>>>,
      <<"U+FFE5", <<"U+00A5">>>>, <<"U+FFE6", <<"U+20A9">>>>,
      <<"U+FFE8", <<"U+2502">>>>, <<"U+FFE9", <<"U+2190">>>>,
      <<"U+FFEA", <<"U+2191">>>>, <<"U+FFEB", <<"U+2192">>>>,
      <<"U+FFEC", <<"U+2193">>>>, <<"U+FFED", <<"U+25A0">>>>,
      <<"U+FFEE", <<"U+25CB">>>>, <<"U+10781", <<"U+02D0">>>>,
      <<"U+10782", <<"U+02D1">>>>, <<"U+10783", <<"U+00E6">>>>,
      <<"U+10784", <<"U+0299">>>>, <<"U+10785", <<"U+0253">>>>,
      <<"U+10787", <<"U+02A3">>>>, <<"U+10788", <<"U+AB66">>>>,
      <<"U+10789", <<"U+02A5">>>>, <<"U+1078A", <<"U+02A4">>>>,
      <<"U+1078B", <<"U+0256">>>>, <<"U+1078C", <<"U+0257">>>>,
      <<"U+1078D", <<"U+1D91">>>>, <<"U+1078E", <<"U+0258">>>>,
      <<"U+1078F", <<"U+025E">>>>, <<"U+10790", <<"U+02A9">>>>,
      <<"U+10791", <<"U+0264">>>>, <<"U+10792", <<"U+0262">>>>,
      <<"U+10793", <<"U+0260">>>>, <<"U+10794", <<"U+029B">>>>,
      <<"U+10795", <<"U+0127">>>>, <<"U+10796", <<"U+029C">>>>,
      <<"U+10797", <<"U+0267">>>>, <<"U+10798", <<"U+0284">>>>,
      <<"U+10799", <<"U+02AA">>>>, <<"U+1079A", <<"U+02AB">>>>,
      <<"U+1079B", <<"U+026C">>>>, <<"U+1079C", <<"U+1DF04">>>>,
      <<"U+1079D", <<"U+A78E">>>>, <<"U+1079E", <<"U+026E">>>>,
      <<"U+1079F", <<"U+1DF05">>>>, <<"U+107A0", <<"U+028E">>>>,
      <<"U+107A1", <<"U+1DF06">>>>, <<"U+107A2", <<"U+00F8">>>>,
      <<"U+107A3", <<"U+0276">>>>, <<"U+107A4", <<"U+0277">>>>,
      <<"U+107A5", <<"q">>>>, <<"U+107A6", <<"U+027A">>>>,
      <<"U+107A7", <<"U+1DF08">>>>, <<"U+107A8", <<"U+027D">>>>,
      <<"U+107A9", <<"U+027E">>>>, <<"U+107AA", <<"U+0280">>>>,
      <<"U+107AB", <<"U+02A8">>>>, <<"U+107AC", <<"U+02A6">>>>,
      <<"U+107AD", <<"U+AB67">>>>, <<"U+107AE", <<"U+02A7">>>>,
      <<"U+107AF", <<"U+0288">>>>, <<"U+107B0", <<"U+2C71">>>>,
      <<"U+107B2", <<"U+028F">>>>, <<"U+107B3", <<"U+02A1">>>>,
      <<"U+107B4", <<"U+02A2">>>>, <<"U+107B5", <<"U+0298">>>>,
      <<"U+107B6", <<"U+01C0">>>>, <<"U+107B7", <<"U+01C1">>>>,
      <<"U+107B8", <<"U+01C2">>>>, <<"U+107B9", <<"U+1DF0A">>>>,
      <<"U+107BA", <<"U+1DF1E">>>>, <<"U+1109A", <<"U+11099", "U+110BA">>>>,
      <<"U+1109C", <<"U+1109B", "U+110BA">>>>,
      <<"U+110AB", <<"U+110A5", "U+110BA">>>>,
      <<"U+1112E", <<"U+11131", "U+11127">>>>,
      <<"U+1112F", <<"U+11132", "U+11127">>>>,
      <<"U+1134B", <<"U+11347", "U+1133E">>>>,
      <<"U+1134C", <<"U+11347", "U+11357">>>>,
      <<"U+114BB", <<"U+114B9", "U+114BA">>>>,
      <<"U+114BC", <<"U+114B9", "U+114B0">>>>,
      <<"U+114BE", <<"U+114B9", "U+114BD">>>>,
      <<"U+115BA", <<"U+115B8", "U+115AF">>>>,
      <<"U+115BB", <<"U+115B9", "U+115AF">>>>,
      <<"U+11938", <<"U+11935", "U+11930">>>>,
      <<"U+1D15E", <<"U+1D157", "U+1D165">>>>,
      <<"U+1D15F", <<"U+1D158", "U+1D165">>>>,
      <<"U+1D160", <<"U+1D158", "U+1D165", "U+1D16E">>>>,
      <<"U+1D161", <<"U+1D158", "U+1D165", "U+1D16F">>>>,
      <<"U+1D162", <<"U+1D158", "U+1D165", "U+1D170">>>>,
      <<"U+1D163", <<"U+1D158", "U+1D165", "U+1D171">>>>,
      <<"U+1D164", <<"U+1D158", "U+1D165", "U+1D172">>>>,
      <<"U+1D1BB", <<"U+1D1B9", "U+1D165">>>>,
      <<"U+1D1BC", <<"U+1D1BA", "U+1D165">>>>,
      <<"U+1D1BD", <<"U+1D1B9", "U+1D165", "U+1D16E">>>>,
      <<"U+1D1BE", <<"U+1D1BA", "U+1D165", "U+1D16E">>>>,
      <<"U+1D1BF", <<"U+1D1B9", "U+1D165", "U+1D16F">>>>,
      <<"U+1D1C0", <<"U+1D1BA", "U+1D165", "U+1D16F">>>>,
      <<"U+1D400", <<"A">>>>, <<"U+1D401", <<"B">>>>, <<"U+1D402", <<"C">>>>,
      <<"U+1D403", <<"D">>>>, <<"U+1D404", <<"E">>>>, <<"U+1D405", <<"F">>>>,
      <<"U+1D406", <<"G">>>>, <<"U+1D407", <<"H">>>>, <<"U+1D408", <<"I">>>>,
      <<"U+1D409", <<"J">>>>, <<"U+1D40A", <<"K">>>>, <<"U+1D40B", <<"L">>>>,
      <<"U+1D40C", <<"M">>>>, <<"U+1D40D", <<"N">>>>, <<"U+1D40E", <<"O">>>>,
      <<"U+1D40F", <<"P">>>>, <<"U+1D410", <<"Q">>>>, <<"U+1D411", <<"R">>>>,
      <<"U+1D412", <<"S">>>>, <<"U+1D413", <<"T">>>>, <<"U+1D414", <<"U">>>>,
      <<"U+1D415", <<"V">>>>, <<"U+1D416", <<"W">>>>, <<"U+1D417", <<"X">>>>,
      <<"U+1D418", <<"Y">>>>, <<"U+1D419", <<"Z">>>>, <<"U+1D41A", <<"a">>>>,
      <<"U+1D41B", <<"b">>>>, <<"U+1D41C", <<"c">>>>, <<"U+1D41D", <<"d">>>>,
      <<"U+1D41E", <<"e">>>>, <<"U+1D41F", <<"f">>>>, <<"U+1D420", <<"g">>>>,
      <<"U+1D421", <<"h">>>>, <<"U+1D422", <<"i">>>>, <<"U+1D423", <<"j">>>>,
      <<"U+1D424", <<"k">>>>, <<"U+1D425", <<"l">>>>, <<"U+1D426", <<"m">>>>,
      <<"U+1D427", <<"n">>>>, <<"U+1D428", <<"o">>>>, <<"U+1D429", <<"p">>>>,
      <<"U+1D42A", <<"q">>>>, <<"U+1D42B", <<"r">>>>, <<"U+1D42C", <<"s">>>>,
      <<"U+1D42D", <<"t">>>>, <<"U+1D42E", <<"u">>>>, <<"U+1D42F", <<"v">>>>,
      <<"U+1D430", <<"w">>>>, <<"U+1D431", <<"x">>>>, <<"U+1D432", <<"y">>>>,
      <<"U+1D433", <<"z">>>>, <<"U+1D434", <<"A">>>>, <<"U+1D435", <<"B">>>>,
      <<"U+1D436", <<"C">>>>, <<"U+1D437", <<"D">>>>, <<"U+1D438", <<"E">>>>,
      <<"U+1D439", <<"F">>>>, <<"U+1D43A", <<"G">>>>, <<"U+1D43B", <<"H">>>>,
      <<"U+1D43C", <<"I">>>>, <<"U+1D43D", <<"J">>>>, <<"U+1D43E", <<"K">>>>,
      <<"U+1D43F", <<"L">>>>, <<"U+1D440", <<"M">>>>, <<"U+1D441", <<"N">>>>,
      <<"U+1D442", <<"O">>>>, <<"U+1D443", <<"P">>>>, <<"U+1D444", <<"Q">>>>,
      <<"U+1D445", <<"R">>>>, <<"U+1D446", <<"S">>>>, <<"U+1D447", <<"T">>>>,
      <<"U+1D448", <<"U">>>>, <<"U+1D449", <<"V">>>>, <<"U+1D44A", <<"W">>>>,
      <<"U+1D44B", <<"X">>>>, <<"U+1D44C", <<"Y">>>>, <<"U+1D44D", <<"Z">>>>,
      <<"U+1D44E", <<"a">>>>, <<"U+1D44F", <<"b">>>>, <<"U+1D450", <<"c">>>>,
      <<"U+1D451", <<"d">>>>, <<"U+1D452", <<"e">>>>, <<"U+1D453", <<"f">>>>,
      <<"U+1D454", <<"g">>>>, <<"U+1D456", <<"i">>>>, <<"U+1D457", <<"j">>>>,
      <<"U+1D458", <<"k">>>>, <<"U+1D459", <<"l">>>>, <<"U+1D45A", <<"m">>>>,
      <<"U+1D45B", <<"n">>>>, <<"U+1D45C", <<"o">>>>, <<"U+1D45D", <<"p">>>>,
      <<"U+1D45E", <<"q">>>>, <<"U+1D45F", <<"r">>>>, <<"U+1D460", <<"s">>>>,
      <<"U+1D461", <<"t">>>>, <<"U+1D462", <<"u">>>>, <<"U+1D463", <<"v">>>>,
      <<"U+1D464", <<"w">>>>, <<"U+1D465", <<"x">>>>, <<"U+1D466", <<"y">>>>,
      <<"U+1D467", <<"z">>>>, <<"U+1D468", <<"A">>>>, <<"U+1D469", <<"B">>>>,
      <<"U+1D46A", <<"C">>>>, <<"U+1D46B", <<"D">>>>, <<"U+1D46C", <<"E">>>>,
      <<"U+1D46D", <<"F">>>>, <<"U+1D46E", <<"G">>>>, <<"U+1D46F", <<"H">>>>,
      <<"U+1D470", <<"I">>>>, <<"U+1D471", <<"J">>>>, <<"U+1D472", <<"K">>>>,
      <<"U+1D473", <<"L">>>>, <<"U+1D474", <<"M">>>>, <<"U+1D475", <<"N">>>>,
      <<"U+1D476", <<"O">>>>, <<"U+1D477", <<"P">>>>, <<"U+1D478", <<"Q">>>>,
      <<"U+1D479", <<"R">>>>, <<"U+1D47A", <<"S">>>>, <<"U+1D47B", <<"T">>>>,
      <<"U+1D47C", <<"U">>>>, <<"U+1D47D", <<"V">>>>, <<"U+1D47E", <<"W">>>>,
      <<"U+1D47F", <<"X">>>>, <<"U+1D480", <<"Y">>>>, <<"U+1D481", <<"Z">>>>,
      <<"U+1D482", <<"a">>>>, <<"U+1D483", <<"b">>>>, <<"U+1D484", <<"c">>>>,
      <<"U+1D485", <<"d">>>>, <<"U+1D486", <<"e">>>>, <<"U+1D487", <<"f">>>>,
      <<"U+1D488", <<"g">>>>, <<"U+1D489", <<"h">>>>, <<"U+1D48A", <<"i">>>>,
      <<"U+1D48B", <<"j">>>>, <<"U+1D48C", <<"k">>>>, <<"U+1D48D", <<"l">>>>,
      <<"U+1D48E", <<"m">>>>, <<"U+1D48F", <<"n">>>>, <<"U+1D490", <<"o">>>>,
      <<"U+1D491", <<"p">>>>, <<"U+1D492", <<"q">>>>, <<"U+1D493", <<"r">>>>,
      <<"U+1D494", <<"s">>>>, <<"U+1D495", <<"t">>>>, <<"U+1D496", <<"u">>>>,
      <<"U+1D497", <<"v">>>>, <<"U+1D498", <<"w">>>>, <<"U+1D499", <<"x">>>>,
      <<"U+1D49A", <<"y">>>>, <<"U+1D49B", <<"z">>>>, <<"U+1D49C", <<"A">>>>,
      <<"U+1D49E", <<"C">>>>, <<"U+1D49F", <<"D">>>>, <<"U+1D4A2", <<"G">>>>,
      <<"U+1D4A5", <<"J">>>>, <<"U+1D4A6", <<"K">>>>, <<"U+1D4A9", <<"N">>>>,
      <<"U+1D4AA", <<"O">>>>, <<"U+1D4AB", <<"P">>>>, <<"U+1D4AC", <<"Q">>>>,
      <<"U+1D4AE", <<"S">>>>, <<"U+1D4AF", <<"T">>>>, <<"U+1D4B0", <<"U">>>>,
      <<"U+1D4B1", <<"V">>>>, <<"U+1D4B2", <<"W">>>>, <<"U+1D4B3", <<"X">>>>,
      <<"U+1D4B4", <<"Y">>>>, <<"U+1D4B5", <<"Z">>>>, <<"U+1D4B6", <<"a">>>>,
      <<"U+1D4B7", <<"b">>>>, <<"U+1D4B8", <<"c">>>>, <<"U+1D4B9", <<"d">>>>,
      <<"U+1D4BB", <<"f">>>>, <<"U+1D4BD", <<"h">>>>, <<"U+1D4BE", <<"i">>>>,
      <<"U+1D4BF", <<"j">>>>, <<"U+1D4C0", <<"k">>>>, <<"U+1D4C1", <<"l">>>>,
      <<"U+1D4C2", <<"m">>>>, <<"U+1D4C3", <<"n">>>>, <<"U+1D4C5", <<"p">>>>,
      <<"U+1D4C6", <<"q">>>>, <<"U+1D4C7", <<"r">>>>, <<"U+1D4C8", <<"s">>>>,
      <<"U+1D4C9", <<"t">>>>, <<"U+1D4CA", <<"u">>>>, <<"U+1D4CB", <<"v">>>>,
      <<"U+1D4CC", <<"w">>>>, <<"U+1D4CD", <<"x">>>>, <<"U+1D4CE", <<"y">>>>,
      <<"U+1D4CF", <<"z">>>>, <<"U+1D4D0", <<"A">>>>, <<"U+1D4D1", <<"B">>>>,
      <<"U+1D4D2", <<"C">>>>, <<"U+1D4D3", <<"D">>>>, <<"U+1D4D4", <<"E">>>>,
      <<"U+1D4D5", <<"F">>>>, <<"U+1D4D6", <<"G">>>>, <<"U+1D4D7", <<"H">>>>,
      <<"U+1D4D8", <<"I">>>>, <<"U+1D4D9", <<"J">>>>, <<"U+1D4DA", <<"K">>>>,
      <<"U+1D4DB", <<"L">>>>, <<"U+1D4DC", <<"M">>>>, <<"U+1D4DD", <<"N">>>>,
      <<"U+1D4DE", <<"O">>>>, <<"U+1D4DF", <<"P">>>>, <<"U+1D4E0", <<"Q">>>>,
      <<"U+1D4E1", <<"R">>>>, <<"U+1D4E2", <<"S">>>>, <<"U+1D4E3", <<"T">>>>,
      <<"U+1D4E4", <<"U">>>>, <<"U+1D4E5", <<"V">>>>, <<"U+1D4E6", <<"W">>>>,
      <<"U+1D4E7", <<"X">>>>, <<"U+1D4E8", <<"Y">>>>, <<"U+1D4E9", <<"Z">>>>,
      <<"U+1D4EA", <<"a">>>>, <<"U+1D4EB", <<"b">>>>, <<"U+1D4EC", <<"c">>>>,
      <<"U+1D4ED", <<"d">>>>, <<"U+1D4EE", <<"e">>>>, <<"U+1D4EF", <<"f">>>>,
      <<"U+1D4F0", <<"g">>>>, <<"U+1D4F1", <<"h">>>>, <<"U+1D4F2", <<"i">>>>,
      <<"U+1D4F3", <<"j">>>>, <<"U+1D4F4", <<"k">>>>, <<"U+1D4F5", <<"l">>>>,
      <<"U+1D4F6", <<"m">>>>, <<"U+1D4F7", <<"n">>>>, <<"U+1D4F8", <<"o">>>>,
      <<"U+1D4F9", <<"p">>>>, <<"U+1D4FA", <<"q">>>>, <<"U+1D4FB", <<"r">>>>,
      <<"U+1D4FC", <<"s">>>>, <<"U+1D4FD", <<"t">>>>, <<"U+1D4FE", <<"u">>>>,
      <<"U+1D4FF", <<"v">>>>, <<"U+1D500", <<"w">>>>, <<"U+1D501", <<"x">>>>,
      <<"U+1D502", <<"y">>>>, <<"U+1D503", <<"z">>>>, <<"U+1D504", <<"A">>>>,
      <<"U+1D505", <<"B">>>>, <<"U+1D507", <<"D">>>>, <<"U+1D508", <<"E">>>>,
      <<"U+1D509", <<"F">>>>, <<"U+1D50A", <<"G">>>>, <<"U+1D50D", <<"J">>>>,
      <<"U+1D50E", <<"K">>>>, <<"U+1D50F", <<"L">>>>, <<"U+1D510", <<"M">>>>,
      <<"U+1D511", <<"N">>>>, <<"U+1D512", <<"O">>>>, <<"U+1D513", <<"P">>>>,
      <<"U+1D514", <<"Q">>>>, <<"U+1D516", <<"S">>>>, <<"U+1D517", <<"T">>>>,
      <<"U+1D518", <<"U">>>>, <<"U+1D519", <<"V">>>>, <<"U+1D51A", <<"W">>>>,
      <<"U+1D51B", <<"X">>>>, <<"U+1D51C", <<"Y">>>>, <<"U+1D51E", <<"a">>>>,
      <<"U+1D51F", <<"b">>>>, <<"U+1D520", <<"c">>>>, <<"U+1D521", <<"d">>>>,
      <<"U+1D522", <<"e">>>>, <<"U+1D523", <<"f">>>>, <<"U+1D524", <<"g">>>>,
      <<"U+1D525", <<"h">>>>, <<"U+1D526", <<"i">>>>, <<"U+1D527", <<"j">>>>,
      <<"U+1D528", <<"k">>>>, <<"U+1D529", <<"l">>>>, <<"U+1D52A", <<"m">>>>,
      <<"U+1D52B", <<"n">>>>, <<"U+1D52C", <<"o">>>>, <<"U+1D52D", <<"p">>>>,
      <<"U+1D52E", <<"q">>>>, <<"U+1D52F", <<"r">>>>, <<"U+1D530", <<"s">>>>,
      <<"U+1D531", <<"t">>>>, <<"U+1D532", <<"u">>>>, <<"U+1D533", <<"v">>>>,
      <<"U+1D534", <<"w">>>>, <<"U+1D535", <<"x">>>>, <<"U+1D536", <<"y">>>>,
      <<"U+1D537", <<"z">>>>, <<"U+1D538", <<"A">>>>, <<"U+1D539", <<"B">>>>,
      <<"U+1D53B", <<"D">>>>, <<"U+1D53C", <<"E">>>>, <<"U+1D53D", <<"F">>>>,
      <<"U+1D53E", <<"G">>>>, <<"U+1D540", <<"I">>>>, <<"U+1D541", <<"J">>>>,
      <<"U+1D542", <<"K">>>>, <<"U+1D543", <<"L">>>>, <<"U+1D544", <<"M">>>>,
      <<"U+1D546", <<"O">>>>, <<"U+1D54A", <<"S">>>>, <<"U+1D54B", <<"T">>>>,
      <<"U+1D54C", <<"U">>>>, <<"U+1D54D", <<"V">>>>, <<"U+1D54E", <<"W">>>>,
      <<"U+1D54F", <<"X">>>>, <<"U+1D550", <<"Y">>>>, <<"U+1D552", <<"a">>>>,
      <<"U+1D553", <<"b">>>>, <<"U+1D554", <<"c">>>>, <<"U+1D555", <<"d">>>>,
      <<"U+1D556", <<"e">>>>, <<"U+1D557", <<"f">>>>, <<"U+1D558", <<"g">>>>,
      <<"U+1D559", <<"h">>>>, <<"U+1D55A", <<"i">>>>, <<"U+1D55B", <<"j">>>>,
      <<"U+1D55C", <<"k">>>>, <<"U+1D55D", <<"l">>>>, <<"U+1D55E", <<"m">>>>,
      <<"U+1D55F", <<"n">>>>, <<"U+1D560", <<"o">>>>, <<"U+1D561", <<"p">>>>,
      <<"U+1D562", <<"q">>>>, <<"U+1D563", <<"r">>>>, <<"U+1D564", <<"s">>>>,
      <<"U+1D565", <<"t">>>>, <<"U+1D566", <<"u">>>>, <<"U+1D567", <<"v">>>>,
      <<"U+1D568", <<"w">>>>, <<"U+1D569", <<"x">>>>, <<"U+1D56A", <<"y">>>>,
      <<"U+1D56B", <<"z">>>>, <<"U+1D56C", <<"A">>>>, <<"U+1D56D", <<"B">>>>,
      <<"U+1D56E", <<"C">>>>, <<"U+1D56F", <<"D">>>>, <<"U+1D570", <<"E">>>>,
      <<"U+1D571", <<"F">>>>, <<"U+1D572", <<"G">>>>, <<"U+1D573", <<"H">>>>,
      <<"U+1D574", <<"I">>>>, <<"U+1D575", <<"J">>>>, <<"U+1D576", <<"K">>>>,
      <<"U+1D577", <<"L">>>>, <<"U+1D578", <<"M">>>>, <<"U+1D579", <<"N">>>>,
      <<"U+1D57A", <<"O">>>>, <<"U+1D57B", <<"P">>>>, <<"U+1D57C", <<"Q">>>>,
      <<"U+1D57D", <<"R">>>>, <<"U+1D57E", <<"S">>>>, <<"U+1D57F", <<"T">>>>,
      <<"U+1D580", <<"U">>>>, <<"U+1D581", <<"V">>>>, <<"U+1D582", <<"W">>>>,
      <<"U+1D583", <<"X">>>>, <<"U+1D584", <<"Y">>>>, <<"U+1D585", <<"Z">>>>,
      <<"U+1D586", <<"a">>>>, <<"U+1D587", <<"b">>>>, <<"U+1D588", <<"c">>>>,
      <<"U+1D589", <<"d">>>>, <<"U+1D58A", <<"e">>>>, <<"U+1D58B", <<"f">>>>,
      <<"U+1D58C", <<"g">>>>, <<"U+1D58D", <<"h">>>>, <<"U+1D58E", <<"i">>>>,
      <<"U+1D58F", <<"j">>>>, <<"U+1D590", <<"k">>>>, <<"U+1D591", <<"l">>>>,
      <<"U+1D592", <<"m">>>>, <<"U+1D593", <<"n">>>>, <<"U+1D594", <<"o">>>>,
      <<"U+1D595", <<"p">>>>, <<"U+1D596", <<"q">>>>, <<"U+1D597", <<"r">>>>,
      <<"U+1D598", <<"s">>>>, <<"U+1D599", <<"t">>>>, <<"U+1D59A", <<"u">>>>,
      <<"U+1D59B", <<"v">>>>, <<"U+1D59C", <<"w">>>>, <<"U+1D59D", <<"x">>>>,
      <<"U+1D59E", <<"y">>>>, <<"U+1D59F", <<"z">>>>, <<"U+1D5A0", <<"A">>>>,
      <<"U+1D5A1", <<"B">>>>, <<"U+1D5A2", <<"C">>>>, <<"U+1D5A3", <<"D">>>>,
      <<"U+1D5A4", <<"E">>>>, <<"U+1D5A5", <<"F">>>>, <<"U+1D5A6", <<"G">>>>,
      <<"U+1D5A7", <<"H">>>>, <<"U+1D5A8", <<"I">>>>, <<"U+1D5A9", <<"J">>>>,
      <<"U+1D5AA", <<"K">>>>, <<"U+1D5AB", <<"L">>>>, <<"U+1D5AC", <<"M">>>>,
      <<"U+1D5AD", <<"N">>>>, <<"U+1D5AE", <<"O">>>>, <<"U+1D5AF", <<"P">>>>,
      <<"U+1D5B0", <<"Q">>>>, <<"U+1D5B1", <<"R">>>>, <<"U+1D5B2", <<"S">>>>,
      <<"U+1D5B3", <<"T">>>>, <<"U+1D5B4", <<"U">>>>, <<"U+1D5B5", <<"V">>>>,
      <<"U+1D5B6", <<"W">>>>, <<"U+1D5B7", <<"X">>>>, <<"U+1D5B8", <<"Y">>>>,
      <<"U+1D5B9", <<"Z">>>>, <<"U+1D5BA", <<"a">>>>, <<"U+1D5BB", <<"b">>>>,
      <<"U+1D5BC", <<"c">>>>, <<"U+1D5BD", <<"d">>>>, <<"U+1D5BE", <<"e">>>>,
      <<"U+1D5BF", <<"f">>>>, <<"U+1D5C0", <<"g">>>>, <<"U+1D5C1", <<"h">>>>,
      <<"U+1D5C2", <<"i">>>>, <<"U+1D5C3", <<"j">>>>, <<"U+1D5C4", <<"k">>>>,
      <<"U+1D5C5", <<"l">>>>, <<"U+1D5C6", <<"m">>>>, <<"U+1D5C7", <<"n">>>>,
      <<"U+1D5C8", <<"o">>>>, <<"U+1D5C9", <<"p">>>>, <<"U+1D5CA", <<"q">>>>,
      <<"U+1D5CB", <<"r">>>>, <<"U+1D5CC", <<"s">>>>, <<"U+1D5CD", <<"t">>>>,
      <<"U+1D5CE", <<"u">>>>, <<"U+1D5CF", <<"v">>>>, <<"U+1D5D0", <<"w">>>>,
      <<"U+1D5D1", <<"x">>>>, <<"U+1D5D2", <<"y">>>>, <<"U+1D5D3", <<"z">>>>,
      <<"U+1D5D4", <<"A">>>>, <<"U+1D5D5", <<"B">>>>, <<"U+1D5D6", <<"C">>>>,
      <<"U+1D5D7", <<"D">>>>, <<"U+1D5D8", <<"E">>>>, <<"U+1D5D9", <<"F">>>>,
      <<"U+1D5DA", <<"G">>>>, <<"U+1D5DB", <<"H">>>>, <<"U+1D5DC", <<"I">>>>,
      <<"U+1D5DD", <<"J">>>>, <<"U+1D5DE", <<"K">>>>, <<"U+1D5DF", <<"L">>>>,
      <<"U+1D5E0", <<"M">>>>, <<"U+1D5E1", <<"N">>>>, <<"U+1D5E2", <<"O">>>>,
      <<"U+1D5E3", <<"P">>>>, <<"U+1D5E4", <<"Q">>>>, <<"U+1D5E5", <<"R">>>>,
      <<"U+1D5E6", <<"S">>>>, <<"U+1D5E7", <<"T">>>>, <<"U+1D5E8", <<"U">>>>,
      <<"U+1D5E9", <<"V">>>>, <<"U+1D5EA", <<"W">>>>, <<"U+1D5EB", <<"X">>>>,
      <<"U+1D5EC", <<"Y">>>>, <<"U+1D5ED", <<"Z">>>>, <<"U+1D5EE", <<"a">>>>,
      <<"U+1D5EF", <<"b">>>>, <<"U+1D5F0", <<"c">>>>, <<"U+1D5F1", <<"d">>>>,
      <<"U+1D5F2", <<"e">>>>, <<"U+1D5F3", <<"f">>>>, <<"U+1D5F4", <<"g">>>>,
      <<"U+1D5F5", <<"h">>>>, <<"U+1D5F6", <<"i">>>>, <<"U+1D5F7", <<"j">>>>,
      <<"U+1D5F8", <<"k">>>>, <<"U+1D5F9", <<"l">>>>, <<"U+1D5FA", <<"m">>>>,
      <<"U+1D5FB", <<"n">>>>, <<"U+1D5FC", <<"o">>>>, <<"U+1D5FD", <<"p">>>>,
      <<"U+1D5FE", <<"q">>>>, <<"U+1D5FF", <<"r">>>>, <<"U+1D600", <<"s">>>>,
      <<"U+1D601", <<"t">>>>, <<"U+1D602", <<"u">>>>, <<"U+1D603", <<"v">>>>,
      <<"U+1D604", <<"w">>>>, <<"U+1D605", <<"x">>>>, <<"U+1D606", <<"y">>>>,
      <<"U+1D607", <<"z">>>>, <<"U+1D608", <<"A">>>>, <<"U+1D609", <<"B">>>>,
      <<"U+1D60A", <<"C">>>>, <<"U+1D60B", <<"D">>>>, <<"U+1D60C", <<"E">>>>,
      <<"U+1D60D", <<"F">>>>, <<"U+1D60E", <<"G">>>>, <<"U+1D60F", <<"H">>>>,
      <<"U+1D610", <<"I">>>>, <<"U+1D611", <<"J">>>>, <<"U+1D612", <<"K">>>>,
      <<"U+1D613", <<"L">>>>, <<"U+1D614", <<"M">>>>, <<"U+1D615", <<"N">>>>,
      <<"U+1D616", <<"O">>>>, <<"U+1D617", <<"P">>>>, <<"U+1D618", <<"Q">>>>,
      <<"U+1D619", <<"R">>>>, <<"U+1D61A", <<"S">>>>, <<"U+1D61B", <<"T">>>>,
      <<"U+1D61C", <<"U">>>>, <<"U+1D61D", <<"V">>>>, <<"U+1D61E", <<"W">>>>,
      <<"U+1D61F", <<"X">>>>, <<"U+1D620", <<"Y">>>>, <<"U+1D621", <<"Z">>>>,
      <<"U+1D622", <<"a">>>>, <<"U+1D623", <<"b">>>>, <<"U+1D624", <<"c">>>>,
      <<"U+1D625", <<"d">>>>, <<"U+1D626", <<"e">>>>, <<"U+1D627", <<"f">>>>,
      <<"U+1D628", <<"g">>>>, <<"U+1D629", <<"h">>>>, <<"U+1D62A", <<"i">>>>,
      <<"U+1D62B", <<"j">>>>, <<"U+1D62C", <<"k">>>>, <<"U+1D62D", <<"l">>>>,
      <<"U+1D62E", <<"m">>>>, <<"U+1D62F", <<"n">>>>, <<"U+1D630", <<"o">>>>,
      <<"U+1D631", <<"p">>>>, <<"U+1D632", <<"q">>>>, <<"U+1D633", <<"r">>>>,
      <<"U+1D634", <<"s">>>>, <<"U+1D635", <<"t">>>>, <<"U+1D636", <<"u">>>>,
      <<"U+1D637", <<"v">>>>, <<"U+1D638", <<"w">>>>, <<"U+1D639", <<"x">>>>,
      <<"U+1D63A", <<"y">>>>, <<"U+1D63B", <<"z">>>>, <<"U+1D63C", <<"A">>>>,
      <<"U+1D63D", <<"B">>>>, <<"U+1D63E", <<"C">>>>, <<"U+1D63F", <<"D">>>>,
      <<"U+1D640", <<"E">>>>, <<"U+1D641", <<"F">>>>, <<"U+1D642", <<"G">>>>,
      <<"U+1D643", <<"H">>>>, <<"U+1D644", <<"I">>>>, <<"U+1D645", <<"J">>>>,
      <<"U+1D646", <<"K">>>>, <<"U+1D647", <<"L">>>>, <<"U+1D648", <<"M">>>>,
      <<"U+1D649", <<"N">>>>, <<"U+1D64A", <<"O">>>>, <<"U+1D64B", <<"P">>>>,
      <<"U+1D64C", <<"Q">>>>, <<"U+1D64D", <<"R">>>>, <<"U+1D64E", <<"S">>>>,
      <<"U+1D64F", <<"T">>>>, <<"U+1D650", <<"U">>>>, <<"U+1D651", <<"V">>>>,
      <<"U+1D652", <<"W">>>>, <<"U+1D653", <<"X">>>>, <<"U+1D654", <<"Y">>>>,
      <<"U+1D655", <<"Z">>>>, <<"U+1D656", <<"a">>>>, <<"U+1D657", <<"b">>>>,
      <<"U+1D658", <<"c">>>>, <<"U+1D659", <<"d">>>>, <<"U+1D65A", <<"e">>>>,
      <<"U+1D65B", <<"f">>>>, <<"U+1D65C", <<"g">>>>, <<"U+1D65D", <<"h">>>>,
      <<"U+1D65E", <<"i">>>>, <<"U+1D65F", <<"j">>>>, <<"U+1D660", <<"k">>>>,
      <<"U+1D661", <<"l">>>>, <<"U+1D662", <<"m">>>>, <<"U+1D663", <<"n">>>>,
      <<"U+1D664", <<"o">>>>, <<"U+1D665", <<"p">>>>, <<"U+1D666", <<"q">>>>,
      <<"U+1D667", <<"r">>>>, <<"U+1D668", <<"s">>>>, <<"U+1D669", <<"t">>>>,
      <<"U+1D66A", <<"u">>>>, <<"U+1D66B", <<"v">>>>, <<"U+1D66C", <<"w">>>>,
      <<"U+1D66D", <<"x">>>>, <<"U+1D66E", <<"y">>>>, <<"U+1D66F", <<"z">>>>,
      <<"U+1D670", <<"A">>>>, <<"U+1D671", <<"B">>>>, <<"U+1D672", <<"C">>>>,
      <<"U+1D673", <<"D">>>>, <<"U+1D674", <<"E">>>>, <<"U+1D675", <<"F">>>>,
      <<"U+1D676", <<"G">>>>, <<"U+1D677", <<"H">>>>, <<"U+1D678", <<"I">>>>,
      <<"U+1D679", <<"J">>>>, <<"U+1D67A", <<"K">>>>, <<"U+1D67B", <<"L">>>>,
      <<"U+1D67C", <<"M">>>>, <<"U+1D67D", <<"N">>>>, <<"U+1D67E", <<"O">>>>,
      <<"U+1D67F", <<"P">>>>, <<"U+1D680", <<"Q">>>>, <<"U+1D681", <<"R">>>>,
      <<"U+1D682", <<"S">>>>, <<"U+1D683", <<"T">>>>, <<"U+1D684", <<"U">>>>,
      <<"U+1D685", <<"V">>>>, <<"U+1D686", <<"W">>>>, <<"U+1D687", <<"X">>>>,
      <<"U+1D688", <<"Y">>>>, <<"U+1D689", <<"Z">>>>, <<"U+1D68A", <<"a">>>>,
      <<"U+1D68B", <<"b">>>>, <<"U+1D68C", <<"c">>>>, <<"U+1D68D", <<"d">>>>,
      <<"U+1D68E", <<"e">>>>, <<"U+1D68F", <<"f">>>>, <<"U+1D690", <<"g">>>>,
      <<"U+1D691", <<"h">>>>, <<"U+1D692", <<"i">>>>, <<"U+1D693", <<"j">>>>,
      <<"U+1D694", <<"k">>>>, <<"U+1D695", <<"l">>>>, <<"U+1D696", <<"m">>>>,
      <<"U+1D697", <<"n">>>>, <<"U+1D698", <<"o">>>>, <<"U+1D699", <<"p">>>>,
      <<"U+1D69A", <<"q">>>>, <<"U+1D69B", <<"r">>>>, <<"U+1D69C", <<"s">>>>,
      <<"U+1D69D", <<"t">>>>, <<"U+1D69E", <<"u">>>>, <<"U+1D69F", <<"v">>>>,
      <<"U+1D6A0", <<"w">>>>, <<"U+1D6A1", <<"x">>>>, <<"U+1D6A2", <<"y">>>>,
      <<"U+1D6A3", <<"z">>>>, <<"U+1D6A4", <<"U+0131">>>>,
      <<"U+1D6A5", <<"U+0237">>>>, <<"U+1D6A8", <<"U+0391">>>>,
      <<"U+1D6A9", <<"U+0392">>>>, <<"U+1D6AA", <<"U+0393">>>>,
      <<"U+1D6AB", <<"U+0394">>>>, <<"U+1D6AC", <<"U+0395">>>>,
      <<"U+1D6AD", <<"U+0396">>>>, <<"U+1D6AE", <<"U+0397">>>>,
      <<"U+1D6AF", <<"U+0398">>>>, <<"U+1D6B0", <<"U+0399">>>>,
      <<"U+1D6B1", <<"U+039A">>>>, <<"U+1D6B2", <<"U+039B">>>>,
      <<"U+1D6B3", <<"U+039C">>>>, <<"U+1D6B4", <<"U+039D">>>>,
      <<"U+1D6B5", <<"U+039E">>>>, <<"U+1D6B6", <<"U+039F">>>>,
      <<"U+1D6B7", <<"U+03A0">>>>, <<"U+1D6B8", <<"U+03A1">>>>,
      <<"U+1D6B9", <<"U+0398">>>>, <<"U+1D6BA", <<"U+03A3">>>>,
      <<"U+1D6BB", <<"U+03A4">>>>, <<"U+1D6BC", <<"U+03A5">>>>,
      <<"U+1D6BD", <<"U+03A6">>>>, <<"U+1D6BE", <<"U+03A7">>>>,
      <<"U+1D6BF", <<"U+03A8">>>>, <<"U+1D6C0", <<"U+03A9">>>>,
      <<"U+1D6C1", <<"U+2207">>>>, <<"U+1D6C2", <<"U+03B1">>>>,
      <<"U+1D6C3", <<"U+03B2">>>>, <<"U+1D6C4", <<"U+03B3">>>>,
      <<"U+1D6C5", <<"U+03B4">>>>, <<"U+1D6C6", <<"U+03B5">>>>,
      <<"U+1D6C7", <<"U+03B6">>>>, <<"U+1D6C8", <<"U+03B7">>>>,
      <<"U+1D6C9", <<"U+03B8">>>>, <<"U+1D6CA", <<"U+03B9">>>>,
      <<"U+1D6CB", <<"U+03BA">>>>, <<"U+1D6CC", <<"U+03BB">>>>,
      <<"U+1D6CD", <<"U+03BC">>>>, <<"U+1D6CE", <<"U+03BD">>>>,
      <<"U+1D6CF", <<"U+03BE">>>>, <<"U+1D6D0", <<"U+03BF">>>>,
      <<"U+1D6D1", <<"U+03C0">>>>, <<"U+1D6D2", <<"U+03C1">>>>,
      <<"U+1D6D3", <<"U+03C2">>>>, <<"U+1D6D4", <<"U+03C3">>>>,
      <<"U+1D6D5", <<"U+03C4">>>>, <<"U+1D6D6", <<"U+03C5">>>>,
      <<"U+1D6D7", <<"U+03C6">>>>, <<"U+1D6D8", <<"U+03C7">>>>,
      <<"U+1D6D9", <<"U+03C8">>>>, <<"U+1D6DA", <<"U+03C9">>>>,
      <<"U+1D6DB", <<"U+2202">>>>, <<"U+1D6DC", <<"U+03B5">>>>,
      <<"U+1D6DD", <<"U+03B8">>>>, <<"U+1D6DE", <<"U+03BA">>>>,
      <<"U+1D6DF", <<"U+03C6">>>>, <<"U+1D6E0", <<"U+03C1">>>>,
      <<"U+1D6E1", <<"U+03C0">>>>, <<"U+1D6E2", <<"U+0391">>>>,
      <<"U+1D6E3", <<"U+0392">>>>, <<"U+1D6E4", <<"U+0393">>>>,
      <<"U+1D6E5", <<"U+0394">>>>, <<"U+1D6E6", <<"U+0395">>>>,
      <<"U+1D6E7", <<"U+0396">>>>, <<"U+1D6E8", <<"U+0397">>>>,
      <<"U+1D6E9", <<"U+0398">>>>, <<"U+1D6EA", <<"U+0399">>>>,
      <<"U+1D6EB", <<"U+039A">>>>, <<"U+1D6EC", <<"U+039B">>>>,
      <<"U+1D6ED", <<"U+039C">>>>, <<"U+1D6EE", <<"U+039D">>>>,
      <<"U+1D6EF", <<"U+039E">>>>, <<"U+1D6F0", <<"U+039F">>>>,
      <<"U+1D6F1", <<"U+03A0">>>>, <<"U+1D6F2", <<"U+03A1">>>>,
      <<"U+1D6F3", <<"U+0398">>>>, <<"U+1D6F4", <<"U+03A3">>>>,
      <<"U+1D6F5", <<"U+03A4">>>>, <<"U+1D6F6", <<"U+03A5">>>>,
      <<"U+1D6F7", <<"U+03A6">>>>, <<"U+1D6F8", <<"U+03A7">>>>,
      <<"U+1D6F9", <<"U+03A8">>>>, <<"U+1D6FA", <<"U+03A9">>>>,
      <<"U+1D6FB", <<"U+2207">>>>, <<"U+1D6FC", <<"U+03B1">>>>,
      <<"U+1D6FD", <<"U+03B2">>>>, <<"U+1D6FE", <<"U+03B3">>>>,
      <<"U+1D6FF", <<"U+03B4">>>>, <<"U+1D700", <<"U+03B5">>>>,
      <<"U+1D701", <<"U+03B6">>>>, <<"U+1D702", <<"U+03B7">>>>,
      <<"U+1D703", <<"U+03B8">>>>, <<"U+1D704", <<"U+03B9">>>>,
      <<"U+1D705", <<"U+03BA">>>>, <<"U+1D706", <<"U+03BB">>>>,
      <<"U+1D707", <<"U+03BC">>>>, <<"U+1D708", <<"U+03BD">>>>,
      <<"U+1D709", <<"U+03BE">>>>, <<"U+1D70A", <<"U+03BF">>>>,
      <<"U+1D70B", <<"U+03C0">>>>, <<"U+1D70C", <<"U+03C1">>>>,
      <<"U+1D70D", <<"U+03C2">>>>, <<"U+1D70E", <<"U+03C3">>>>,
      <<"U+1D70F", <<"U+03C4">>>>, <<"U+1D710", <<"U+03C5">>>>,
      <<"U+1D711", <<"U+03C6">>>>, <<"U+1D712", <<"U+03C7">>>>,
      <<"U+1D713", <<"U+03C8">>>>, <<"U+1D714", <<"U+03C9">>>>,
      <<"U+1D715", <<"U+2202">>>>, <<"U+1D716", <<"U+03B5">>>>,
      <<"U+1D717", <<"U+03B8">>>>, <<"U+1D718", <<"U+03BA">>>>,
      <<"U+1D719", <<"U+03C6">>>>, <<"U+1D71A", <<"U+03C1">>>>,
      <<"U+1D71B", <<"U+03C0">>>>, <<"U+1D71C", <<"U+0391">>>>,
      <<"U+1D71D", <<"U+0392">>>>, <<"U+1D71E", <<"U+0393">>>>,
      <<"U+1D71F", <<"U+0394">>>>, <<"U+1D720", <<"U+0395">>>>,
      <<"U+1D721", <<"U+0396">>>>, <<"U+1D722", <<"U+0397">>>>,
      <<"U+1D723", <<"U+0398">>>>, <<"U+1D724", <<"U+0399">>>>,
      <<"U+1D725", <<"U+039A">>>>, <<"U+1D726", <<"U+039B">>>>,
      <<"U+1D727", <<"U+039C">>>>, <<"U+1D728", <<"U+039D">>>>,
      <<"U+1D729", <<"U+039E">>>>, <<"U+1D72A", <<"U+039F">>>>,
      <<"U+1D72B", <<"U+03A0">>>>, <<"U+1D72C", <<"U+03A1">>>>,
      <<"U+1D72D", <<"U+0398">>>>, <<"U+1D72E", <<"U+03A3">>>>,
      <<"U+1D72F", <<"U+03A4">>>>, <<"U+1D730", <<"U+03A5">>>>,
      <<"U+1D731", <<"U+03A6">>>>, <<"U+1D732", <<"U+03A7">>>>,
      <<"U+1D733", <<"U+03A8">>>>, <<"U+1D734", <<"U+03A9">>>>,
      <<"U+1D735", <<"U+2207">>>>, <<"U+1D736", <<"U+03B1">>>>,
      <<"U+1D737", <<"U+03B2">>>>, <<"U+1D738", <<"U+03B3">>>>,
      <<"U+1D739", <<"U+03B4">>>>, <<"U+1D73A", <<"U+03B5">>>>,
      <<"U+1D73B", <<"U+03B6">>>>, <<"U+1D73C", <<"U+03B7">>>>,
      <<"U+1D73D", <<"U+03B8">>>>, <<"U+1D73E", <<"U+03B9">>>>,
      <<"U+1D73F", <<"U+03BA">>>>, <<"U+1D740", <<"U+03BB">>>>,
      <<"U+1D741", <<"U+03BC">>>>, <<"U+1D742", <<"U+03BD">>>>,
      <<"U+1D743", <<"U+03BE">>>>, <<"U+1D744", <<"U+03BF">>>>,
      <<"U+1D745", <<"U+03C0">>>>, <<"U+1D746", <<"U+03C1">>>>,
      <<"U+1D747", <<"U+03C2">>>>, <<"U+1D748", <<"U+03C3">>>>,
      <<"U+1D749", <<"U+03C4">>>>, <<"U+1D74A", <<"U+03C5">>>>,
      <<"U+1D74B", <<"U+03C6">>>>, <<"U+1D74C", <<"U+03C7">>>>,
      <<"U+1D74D", <<"U+03C8">>>>, <<"U+1D74E", <<"U+03C9">>>>,
      <<"U+1D74F", <<"U+2202">>>>, <<"U+1D750", <<"U+03B5">>>>,
      <<"U+1D751", <<"U+03B8">>>>, <<"U+1D752", <<"U+03BA">>>>,
      <<"U+1D753", <<"U+03C6">>>>, <<"U+1D754", <<"U+03C1">>>>,
      <<"U+1D755", <<"U+03C0">>>>, <<"U+1D756", <<"U+0391">>>>,
      <<"U+1D757", <<"U+0392">>>>, <<"U+1D758", <<"U+0393">>>>,
      <<"U+1D759", <<"U+0394">>>>, <<"U+1D75A", <<"U+0395">>>>,
      <<"U+1D75B", <<"U+0396">>>>, <<"U+1D75C", <<"U+0397">>>>,
      <<"U+1D75D", <<"U+0398">>>>, <<"U+1D75E", <<"U+0399">>>>,
      <<"U+1D75F", <<"U+039A">>>>, <<"U+1D760", <<"U+039B">>>>,
      <<"U+1D761", <<"U+039C">>>>, <<"U+1D762", <<"U+039D">>>>,
      <<"U+1D763", <<"U+039E">>>>, <<"U+1D764", <<"U+039F">>>>,
      <<"U+1D765", <<"U+03A0">>>>, <<"U+1D766", <<"U+03A1">>>>,
      <<"U+1D767", <<"U+0398">>>>, <<"U+1D768", <<"U+03A3">>>>,
      <<"U+1D769", <<"U+03A4">>>>, <<"U+1D76A", <<"U+03A5">>>>,
      <<"U+1D76B", <<"U+03A6">>>>, <<"U+1D76C", <<"U+03A7">>>>,
      <<"U+1D76D", <<"U+03A8">>>>, <<"U+1D76E", <<"U+03A9">>>>,
      <<"U+1D76F", <<"U+2207">>>>, <<"U+1D770", <<"U+03B1">>>>,
      <<"U+1D771", <<"U+03B2">>>>, <<"U+1D772", <<"U+03B3">>>>,
      <<"U+1D773", <<"U+03B4">>>>, <<"U+1D774", <<"U+03B5">>>>,
      <<"U+1D775", <<"U+03B6">>>>, <<"U+1D776", <<"U+03B7">>>>,
      <<"U+1D777", <<"U+03B8">>>>, <<"U+1D778", <<"U+03B9">>>>,
      <<"U+1D779", <<"U+03BA">>>>, <<"U+1D77A", <<"U+03BB">>>>,
      <<"U+1D77B", <<"U+03BC">>>>, <<"U+1D77C", <<"U+03BD">>>>,
      <<"U+1D77D", <<"U+03BE">>>>, <<"U+1D77E", <<"U+03BF">>>>,
      <<"U+1D77F", <<"U+03C0">>>>, <<"U+1D780", <<"U+03C1">>>>,
      <<"U+1D781", <<"U+03C2">>>>, <<"U+1D782", <<"U+03C3">>>>,
      <<"U+1D783", <<"U+03C4">>>>, <<"U+1D784", <<"U+03C5">>>>,
      <<"U+1D785", <<"U+03C6">>>>, <<"U+1D786", <<"U+03C7">>>>,
      <<"U+1D787", <<"U+03C8">>>>, <<"U+1D788", <<"U+03C9">>>>,
      <<"U+1D789", <<"U+2202">>>>, <<"U+1D78A", <<"U+03B5">>>>,
      <<"U+1D78B", <<"U+03B8">>>>, <<"U+1D78C", <<"U+03BA">>>>,
      <<"U+1D78D", <<"U+03C6">>>>, <<"U+1D78E", <<"U+03C1">>>>,
      <<"U+1D78F", <<"U+03C0">>>>, <<"U+1D790", <<"U+0391">>>>,
      <<"U+1D791", <<"U+0392">>>>, <<"U+1D792", <<"U+0393">>>>,
      <<"U+1D793", <<"U+0394">>>>, <<"U+1D794", <<"U+0395">>>>,
      <<"U+1D795", <<"U+0396">>>>, <<"U+1D796", <<"U+0397">>>>,
      <<"U+1D797", <<"U+0398">>>>, <<"U+1D798", <<"U+0399">>>>,
      <<"U+1D799", <<"U+039A">>>>, <<"U+1D79A", <<"U+039B">>>>,
      <<"U+1D79B", <<"U+039C">>>>, <<"U+1D79C", <<"U+039D">>>>,
      <<"U+1D79D", <<"U+039E">>>>, <<"U+1D79E", <<"U+039F">>>>,
      <<"U+1D79F", <<"U+03A0">>>>, <<"U+1D7A0", <<"U+03A1">>>>,
      <<"U+1D7A1", <<"U+0398">>>>, <<"U+1D7A2", <<"U+03A3">>>>,
      <<"U+1D7A3", <<"U+03A4">>>>, <<"U+1D7A4", <<"U+03A5">>>>,
      <<"U+1D7A5", <<"U+03A6">>>>, <<"U+1D7A6", <<"U+03A7">>>>,
      <<"U+1D7A7", <<"U+03A8">>>>, <<"U+1D7A8", <<"U+03A9">>>>,
      <<"U+1D7A9", <<"U+2207">>>>, <<"U+1D7AA", <<"U+03B1">>>>,
      <<"U+1D7AB", <<"U+03B2">>>>, <<"U+1D7AC", <<"U+03B3">>>>,
      <<"U+1D7AD", <<"U+03B4">>>>, <<"U+1D7AE", <<"U+03B5">>>>,
      <<"U+1D7AF", <<"U+03B6">>>>, <<"U+1D7B0", <<"U+03B7">>>>,
      <<"U+1D7B1", <<"U+03B8">>>>, <<"U+1D7B2", <<"U+03B9">>>>,
      <<"U+1D7B3", <<"U+03BA">>>>, <<"U+1D7B4", <<"U+03BB">>>>,
      <<"U+1D7B5", <<"U+03BC">>>>, <<"U+1D7B6", <<"U+03BD">>>>,
      <<"U+1D7B7", <<"U+03BE">>>>, <<"U+1D7B8", <<"U+03BF">>>>,
      <<"U+1D7B9", <<"U+03C0">>>>, <<"U+1D7BA", <<"U+03C1">>>>,
      <<"U+1D7BB", <<"U+03C2">>>>, <<"U+1D7BC", <<"U+03C3">>>>,
      <<"U+1D7BD", <<"U+03C4">>>>, <<"U+1D7BE", <<"U+03C5">>>>,
      <<"U+1D7BF", <<"U+03C6">>>>, <<"U+1D7C0", <<"U+03C7">>>>,
      <<"U+1D7C1", <<"U+03C8">>>>, <<"U+1D7C2", <<"U+03C9">>>>,
      <<"U+1D7C3", <<"U+2202">>>>, <<"U+1D7C4", <<"U+03B5">>>>,
      <<"U+1D7C5", <<"U+03B8">>>>, <<"U+1D7C6", <<"U+03BA">>>>,
      <<"U+1D7C7", <<"U+03C6">>>>, <<"U+1D7C8", <<"U+03C1">>>>,
      <<"U+1D7C9", <<"U+03C0">>>>, <<"U+1D7CA", <<"U+03DC">>>>,
      <<"U+1D7CB", <<"U+03DD">>>>, <<"U+1D7CE", <<"0">>>>,
      <<"U+1D7CF", <<"1">>>>, <<"U+1D7D0", <<"2">>>>, <<"U+1D7D1", <<"3">>>>,
      <<"U+1D7D2", <<"4">>>>, <<"U+1D7D3", <<"5">>>>, <<"U+1D7D4", <<"6">>>>,
      <<"U+1D7D5", <<"7">>>>, <<"U+1D7D6", <<"8">>>>, <<"U+1D7D7", <<"9">>>>,
      <<"U+1D7D8", <<"0">>>>, <<"U+1D7D9", <<"1">>>>, <<"U+1D7DA", <<"2">>>>,
      <<"U+1D7DB", <<"3">>>>, <<"U+1D7DC", <<"4">>>>, <<"U+1D7DD", <<"5">>>>,
      <<"U+1D7DE", <<"6">>>>, <<"U+1D7DF", <<"7">>>>, <<"U+1D7E0", <<"8">>>>,
      <<"U+1D7E1", <<"9">>>>, <<"U+1D7E2", <<"0">>>>, <<"U+1D7E3", <<"1">>>>,
      <<"U+1D7E4", <<"2">>>>, <<"U+1D7E5", <<"3">>>>, <<"U+1D7E6", <<"4">>>>,
      <<"U+1D7E7", <<"5">>>>, <<"U+1D7E8", <<"6">>>>, <<"U+1D7E9", <<"7">>>>,
      <<"U+1D7EA", <<"8">>>>, <<"U+1D7EB", <<"9">>>>, <<"U+1D7EC", <<"0">>>>,
      <<"U+1D7ED", <<"1">>>>, <<"U+1D7EE", <<"2">>>>, <<"U+1D7EF", <<"3">>>>,
      <<"U+1D7F0", <<"4">>>>, <<"U+1D7F1", <<"5">>>>, <<"U+1D7F2", <<"6">>>>,
      <<"U+1D7F3", <<"7">>>>, <<"U+1D7F4", <<"8">>>>, <<"U+1D7F5", <<"9">>>>,
      <<"U+1D7F6", <<"0">>>>, <<"U+1D7F7", <<"1">>>>, <<"U+1D7F8", <<"2">>>>,
      <<"U+1D7F9", <<"3">>>>, <<"U+1D7FA", <<"4">>>>, <<"U+1D7FB", <<"5">>>>,
      <<"U+1D7FC", <<"6">>>>, <<"U+1D7FD", <<"7">>>>, <<"U+1D7FE", <<"8">>>>,
      <<"U+1D7FF", <<"9">>>>, <<"U+1EE00", <<"U+0627">>>>,
      <<"U+1EE01", <<"U+0628">>>>, <<"U+1EE02", <<"U+062C">>>>,
      <<"U+1EE03", <<"U+062F">>>>, <<"U+1EE05", <<"U+0648">>>>,
      <<"U+1EE06", <<"U+0632">>>>, <<"U+1EE07", <<"U+062D">>>>,
      <<"U+1EE08", <<"U+0637">>>>, <<"U+1EE09", <<"U+064A">>>>,
      <<"U+1EE0A", <<"U+0643">>>>, <<"U+1EE0B", <<"U+0644">>>>,
      <<"U+1EE0C", <<"U+0645">>>>, <<"U+1EE0D", <<"U+0646">>>>,
      <<"U+1EE0E", <<"U+0633">>>>, <<"U+1EE0F", <<"U+0639">>>>,
      <<"U+1EE10", <<"U+0641">>>>, <<"U+1EE11", <<"U+0635">>>>,
      <<"U+1EE12", <<"U+0642">>>>, <<"U+1EE13", <<"U+0631">>>>,
      <<"U+1EE14", <<"U+0634">>>>, <<"U+1EE15", <<"U+062A">>>>,
      <<"U+1EE16", <<"U+062B">>>>, <<"U+1EE17", <<"U+062E">>>>,
      <<"U+1EE18", <<"U+0630">>>>, <<"U+1EE19", <<"U+0636">>>>,
      <<"U+1EE1A", <<"U+0638">>>>, <<"U+1EE1B", <<"U+063A">>>>,
      <<"U+1EE1C", <<"U+066E">>>>, <<"U+1EE1D", <<"U+06BA">>>>,
      <<"U+1EE1E", <<"U+06A1">>>>, <<"U+1EE1F", <<"U+066F">>>>,
      <<"U+1EE21", <<"U+0628">>>>, <<"U+1EE22", <<"U+062C">>>>,
      <<"U+1EE24", <<"U+0647">>>>, <<"U+1EE27", <<"U+062D">>>>,
      <<"U+1EE29", <<"U+064A">>>>, <<"U+1EE2A", <<"U+0643">>>>,
      <<"U+1EE2B", <<"U+0644">>>>, <<"U+1EE2C", <<"U+0645">>>>,
      <<"U+1EE2D", <<"U+0646">>>>, <<"U+1EE2E", <<"U+0633">>>>,
      <<"U+1EE2F", <<"U+0639">>>>, <<"U+1EE30", <<"U+0641">>>>,
      <<"U+1EE31", <<"U+0635">>>>, <<"U+1EE32", <<"U+0642">>>>,
      <<"U+1EE34", <<"U+0634">>>>, <<"U+1EE35", <<"U+062A">>>>,
      <<"U+1EE36", <<"U+062B">>>>, <<"U+1EE37", <<"U+062E">>>>,
      <<"U+1EE39", <<"U+0636">>>>, <<"U+1EE3B", <<"U+063A">>>>,
      <<"U+1EE42", <<"U+062C">>>>, <<"U+1EE47", <<"U+062D">>>>,
      <<"U+1EE49", <<"U+064A">>>>, <<"U+1EE4B", <<"U+0644">>>>,
      <<"U+1EE4D", <<"U+0646">>>>, <<"U+1EE4E", <<"U+0633">>>>,
      <<"U+1EE4F", <<"U+0639">>>>, <<"U+1EE51", <<"U+0635">>>>,
      <<"U+1EE52", <<"U+0642">>>>, <<"U+1EE54", <<"U+0634">>>>,
      <<"U+1EE57", <<"U+062E">>>>, <<"U+1EE59", <<"U+0636">>>>,
      <<"U+1EE5B", <<"U+063A">>>>, <<"U+1EE5D", <<"U+06BA">>>>,
      <<"U+1EE5F", <<"U+066F">>>>, <<"U+1EE61", <<"U+0628">>>>,
      <<"U+1EE62", <<"U+062C">>>>, <<"U+1EE64", <<"U+0647">>>>,
      <<"U+1EE67", <<"U+062D">>>>, <<"U+1EE68", <<"U+0637">>>>,
      <<"U+1EE69", <<"U+064A">>>>, <<"U+1EE6A", <<"U+0643">>>>,
      <<"U+1EE6C", <<"U+0645">>>>, <<"U+1EE6D", <<"U+0646">>>>,
      <<"U+1EE6E", <<"U+0633">>>>, <<"U+1EE6F", <<"U+0639">>>>,
      <<"U+1EE70", <<"U+0641">>>>, <<"U+1EE71", <<"U+0635">>>>,
      <<"U+1EE72", <<"U+0642">>>>, <<"U+1EE74", <<"U+0634">>>>,
      <<"U+1EE75", <<"U+062A">>>>, <<"U+1EE76", <<"U+062B">>>>,
      <<"U+1EE77", <<"U+062E">>>>, <<"U+1EE79", <<"U+0636">>>>,
      <<"U+1EE7A", <<"U+0638">>>>, <<"U+1EE7B", <<"U+063A">>>>,
      <<"U+1EE7C", <<"U+066E">>>>, <<"U+1EE7E", <<"U+06A1">>>>,
      <<"U+1EE80", <<"U+0627">>>>, <<"U+1EE81", <<"U+0628">>>>,
      <<"U+1EE82", <<"U+062C">>>>, <<"U+1EE83", <<"U+062F">>>>,
      <<"U+1EE84", <<"U+0647">>>>, <<"U+1EE85", <<"U+0648">>>>,
      <<"U+1EE86", <<"U+0632">>>>, <<"U+1EE87", <<"U+062D">>>>,
      <<"U+1EE88", <<"U+0637">>>>, <<"U+1EE89", <<"U+064A">>>>,
      <<"U+1EE8B", <<"U+0644">>>>, <<"U+1EE8C", <<"U+0645">>>>,
      <<"U+1EE8D", <<"U+0646">>>>, <<"U+1EE8E", <<"U+0633">>>>,
      <<"U+1EE8F", <<"U+0639">>>>, <<"U+1EE90", <<"U+0641">>>>,
      <<"U+1EE91", <<"U+0635">>>>, <<"U+1EE92", <<"U+0642">>>>,
      <<"U+1EE93", <<"U+0631">>>>, <<"U+1EE94", <<"U+0634">>>>,
      <<"U+1EE95", <<"U+062A">>>>, <<"U+1EE96", <<"U+062B">>>>,
      <<"U+1EE97", <<"U+062E">>>>, <<"U+1EE98", <<"U+0630">>>>,
      <<"U+1EE99", <<"U+0636">>>>, <<"U+1EE9A", <<"U+0638">>>>,
      <<"U+1EE9B", <<"U+063A">>>>, <<"U+1EEA1", <<"U+0628">>>>,
      <<"U+1EEA2", <<"U+062C">>>>, <<"U+1EEA3", <<"U+062F">>>>,
      <<"U+1EEA5", <<"U+0648">>>>, <<"U+1EEA6", <<"U+0632">>>>,
      <<"U+1EEA7", <<"U+062D">>>>, <<"U+1EEA8", <<"U+0637">>>>,
      <<"U+1EEA9", <<"U+064A">>>>, <<"U+1EEAB", <<"U+0644">>>>,
      <<"U+1EEAC", <<"U+0645">>>>, <<"U+1EEAD", <<"U+0646">>>>,
      <<"U+1EEAE", <<"U+0633">>>>, <<"U+1EEAF", <<"U+0639">>>>,
      <<"U+1EEB0", <<"U+0641">>>>, <<"U+1EEB1", <<"U+0635">>>>,
      <<"U+1EEB2", <<"U+0642">>>>, <<"U+1EEB3", <<"U+0631">>>>,
      <<"U+1EEB4", <<"U+0634">>>>, <<"U+1EEB5", <<"U+062A">>>>,
      <<"U+1EEB6", <<"U+062B">>>>, <<"U+1EEB7", <<"U+062E">>>>,
      <<"U+1EEB8", <<"U+0630">>>>, <<"U+1EEB9", <<"U+0636">>>>,
      <<"U+1EEBA", <<"U+0638">>>>, <<"U+1EEBB", <<"U+063A">>>>,
      <<"U+1F100", <<"0", ".">>>>, <<"U+1F101", <<"0", ",">>>>,
      <<"U+1F102", <<"1", ",">>>>, <<"U+1F103", <<"2", ",">>>>,
      <<"U+1F104", <<"3", ",">>>>, <<"U+1F105", <<"4", ",">>>>,
      <<"U+1F106", <<"5", ",">>>>, <<"U+1F107", <<"6", ",">>>>,
      <<"U+1F108", <<"7", ",">>>>, <<"U+1F109", <<"8", ",">>>>,
      <<"U+1F10A", <<"9", ",">>>>, <<"U+1F110", <<"(", "A", ")">>>>,
      <<"U+1F111", <<"(", "B", ")">>>>, <<"U+1F112", <<"(", "C", ")">>>>,
      <<"U+1F113", <<"(", "D", ")">>>>, <<"U+1F114", <<"(", "E", ")">>>>,
      <<"U+1F115", <<"(", "F", ")">>>>, <<"U+1F116", <<"(", "G", ")">>>>,
      <<"U+1F117", <<"(", "H", ")">>>>, <<"U+1F118", <<"(", "I", ")">>>>,
      <<"U+1F119", <<"(", "J", ")">>>>, <<"U+1F11A", <<"(", "K", ")">>>>,
      <<"U+1F11B", <<"(", "L", ")">>>>, <<"U+1F11C", <<"(", "M", ")">>>>,
      <<"U+1F11D", <<"(", "N", ")">>>>, <<"U+1F11E", <<"(", "O", ")">>>>,
      <<"U+1F11F", <<"(", "P", ")">>>>, <<"U+1F120", <<"(", "Q", ")">>>>,
      <<"U+1F121", <<"(", "R", ")">>>>, <<"U+1F122", <<"(", "S", ")">>>>,
      <<"U+1F123", <<"(", "T", ")">>>>, <<"U+1F124", <<"(", "U", ")">>>>,
      <<"U+1F125", <<"(", "V", ")">>>>, <<"U+1F126", <<"(", "W", ")">>>>,
      <<"U+1F127", <<"(", "X", ")">>>>, <<"U+1F128", <<"(", "Y", ")">>>>,
      <<"U+1F129", <<"(", "Z", ")">>>>,
      <<"U+1F12A", <<"U+3014", "S", "U+3015">>>>, <<"U+1F12B", <<"C">>>>,
      <<"U+1F12C", <<"R">>>>, <<"U+1F12D", <<"C", "D">>>>,
      <<"U+1F12E", <<"W", "Z">>>>, <<"U+1F130", <<"A">>>>,
      <<"U+1F131", <<"B">>>>, <<"U+1F132", <<"C">>>>, <<"U+1F133", <<"D">>>>,
      <<"U+1F134", <<"E">>>>, <<"U+1F135", <<"F">>>>, <<"U+1F136", <<"G">>>>,
      <<"U+1F137", <<"H">>>>, <<"U+1F138", <<"I">>>>, <<"U+1F139", <<"J">>>>,
      <<"U+1F13A", <<"K">>>>, <<"U+1F13B", <<"L">>>>, <<"U+1F13C", <<"M">>>>,
      <<"U+1F13D", <<"N">>>>, <<"U+1F13E", <<"O">>>>, <<"U+1F13F", <<"P">>>>,
      <<"U+1F140", <<"Q">>>>, <<"U+1F141", <<"R">>>>, <<"U+1F142", <<"S">>>>,
      <<"U+1F143", <<"T">>>>, <<"U+1F144", <<"U">>>>, <<"U+1F145", <<"V">>>>,
      <<"U+1F146", <<"W">>>>, <<"U+1F147", <<"X">>>>, <<"U+1F148", <<"Y">>>>,
      <<"U+1F149", <<"Z">>>>, <<"U+1F14A", <<"H", "V">>>>,
      <<"U+1F14B", <<"M", "V">>>>, <<"U+1F14C", <<"S", "D">>>>,
      <<"U+1F14D", <<"S", "S">>>>, <<"U+1F14E", <<"P", "P", "V">>>>,
      <<"U+1F14F", <<"W", "C">>>>, <<"U+1F16A", <<"M", "C">>>>,
      <<"U+1F16B", <<"M", "D">>>>, <<"U+1F16C", <<"M", "R">>>>,
      <<"U+1F190", <<"D", "J">>>>, <<"U+1F200", <<"U+307B", "U+304B">>>>,
      <<"U+1F201", <<"U+30B3", "U+30B3">>>>, <<"U+1F202", <<"U+30B5">>>>,
      <<"U+1F210", <<"U+624B">>>>, <<"U+1F211", <<"U+5B57">>>>,
      <<"U+1F212", <<"U+53CC">>>>, <<"U+1F213", <<"U+30C6", "U+3099">>>>,
      <<"U+1F214", <<"U+4E8C">>>>, <<"U+1F215", <<"U+591A">>>>,
      <<"U+1F216", <<"U+89E3">>>>, <<"U+1F217", <<"U+5929">>>>,
      <<"U+1F218", <<"U+4EA4">>>>, <<"U+1F219", <<"U+6620">>>>,
      <<"U+1F21A", <<"U+7121">>>>, <<"U+1F21B", <<"U+6599">>>>,
      <<"U+1F21C", <<"U+524D">>>>, <<"U+1F21D", <<"U+5F8C">>>>,
      <<"U+1F21E", <<"U+518D">>>>, <<"U+1F21F", <<"U+65B0">>>>,
      <<"U+1F220", <<"U+521D">>>>, <<"U+1F221", <<"U+7D42">>>>,
      <<"U+1F222", <<"U+751F">>>>, <<"U+1F223", <<"U+8CA9">>>>,
      <<"U+1F224", <<"U+58F0">>>>, <<"U+1F225", <<"U+5439">>>>,
      <<"U+1F226", <<"U+6F14">>>>, <<"U+1F227", <<"U+6295">>>>,
      <<"U+1F228", <<"U+6355">>>>, <<"U+1F229", <<"U+4E00">>>>,
      <<"U+1F22A", <<"U+4E09">>>>, <<"U+1F22B", <<"U+904A">>>>,
      <<"U+1F22C", <<"U+5DE6">>>>, <<"U+1F22D", <<"U+4E2D">>>>,
      <<"U+1F22E", <<"U+53F3">>>>, <<"U+1F22F", <<"U+6307">>>>,
      <<"U+1F230", <<"U+8D70">>>>, <<"U+1F231", <<"U+6253">>>>,
      <<"U+1F232", <<"U+7981">>>>, <<"U+1F233", <<"U+7A7A">>>>,
      <<"U+1F234", <<"U+5408">>>>, <<"U+1F235", <<"U+6E80">>>>,
      <<"U+1F236", <<"U+6709">>>>, <<"U+1F237", <<"U+6708">>>>,
      <<"U+1F238", <<"U+7533">>>>, <<"U+1F239", <<"U+5272">>>>,
      <<"U+1F23A", <<"U+55B6">>>>, <<"U+1F23B", <<"U+914D">>>>,
      <<"U+1F240", <<"U+3014", "U+672C", "U+3015">>>>,
      <<"U+1F241", <<"U+3014", "U+4E09", "U+3015">>>>,
      <<"U+1F242", <<"U+3014", "U+4E8C", "U+3015">>>>,
      <<"U+1F243", <<"U+3014", "U+5B89", "U+3015">>>>,
      <<"U+1F244", <<"U+3014", "U+70B9", "U+3015">>>>,
      <<"U+1F245", <<"U+3014", "U+6253", "U+3015">>>>,
      <<"U+1F246", <<"U+3014", "U+76D7", "U+3015">>>>,
      <<"U+1F247", <<"U+3014", "U+52DD", "U+3015">>>>,
      <<"U+1F248", <<"U+3014", "U+6557", "U+3015">>>>,
      <<"U+1F250", <<"U+5F97">>>>, <<"U+1F251", <<"U+53EF">>>>,
      <<"U+1FBF0", <<"0">>>>, <<"U+1FBF1", <<"1">>>>, <<"U+1FBF2", <<"2">>>>,
      <<"U+1FBF3", <<"3">>>>, <<"U+1FBF4", <<"4">>>>, <<"U+1FBF5", <<"5">>>>,
      <<"U+1FBF6", <<"6">>>>, <<"U+1FBF7", <<"7">>>>, <<"U+1FBF8", <<"8">>>>,
      <<"U+1FBF9", <<"9">>>>, <<"U+2F800", <<"U+4E3D">>>>,
      <<"U+2F801", <<"U+4E38">>>>, <<"U+2F802", <<"U+4E41">>>>,
      <<"U+2F803", <<"U+20122">>>>, <<"U+2F804", <<"U+4F60">>>>,
      <<"U+2F805", <<"U+4FAE">>>>, <<"U+2F806", <<"U+4FBB">>>>,
      <<"U+2F807", <<"U+5002">>>>, <<"U+2F808", <<"U+507A">>>>,
      <<"U+2F809", <<"U+5099">>>>, <<"U+2F80A", <<"U+50E7">>>>,
      <<"U+2F80B", <<"U+50CF">>>>, <<"U+2F80C", <<"U+349E">>>>,
      <<"U+2F80D", <<"U+2063A">>>>, <<"U+2F80E", <<"U+514D">>>>,
      <<"U+2F80F", <<"U+5154">>>>, <<"U+2F810", <<"U+5164">>>>,
      <<"U+2F811", <<"U+5177">>>>, <<"U+2F812", <<"U+2051C">>>>,
      <<"U+2F813", <<"U+34B9">>>>, <<"U+2F814", <<"U+5167">>>>,
      <<"U+2F815", <<"U+518D">>>>, <<"U+2F816", <<"U+2054B">>>>,
      <<"U+2F817", <<"U+5197">>>>, <<"U+2F818", <<"U+51A4">>>>,
      <<"U+2F819", <<"U+4ECC">>>>, <<"U+2F81A", <<"U+51AC">>>>,
      <<"U+2F81B", <<"U+51B5">>>>, <<"U+2F81C", <<"U+291DF">>>>,
      <<"U+2F81D", <<"U+51F5">>>>, <<"U+2F81E", <<"U+5203">>>>,
      <<"U+2F81F", <<"U+34DF">>>>, <<"U+2F820", <<"U+523B">>>>,
      <<"U+2F821", <<"U+5246">>>>, <<"U+2F822", <<"U+5272">>>>,
      <<"U+2F823", <<"U+5277">>>>, <<"U+2F824", <<"U+3515">>>>,
      <<"U+2F825", <<"U+52C7">>>>, <<"U+2F826", <<"U+52C9">>>>,
      <<"U+2F827", <<"U+52E4">>>>, <<"U+2F828", <<"U+52FA">>>>,
      <<"U+2F829", <<"U+5305">>>>, <<"U+2F82A", <<"U+5306">>>>,
      <<"U+2F82B", <<"U+5317">>>>, <<"U+2F82C", <<"U+5349">>>>,
      <<"U+2F82D", <<"U+5351">>>>, <<"U+2F82E", <<"U+535A">>>>,
      <<"U+2F82F", <<"U+5373">>>>, <<"U+2F830", <<"U+537D">>>>,
      <<"U+2F831", <<"U+537F">>>>, <<"U+2F832", <<"U+537F">>>>,
      <<"U+2F833", <<"U+537F">>>>, <<"U+2F834", <<"U+20A2C">>>>,
      <<"U+2F835", <<"U+7070">>>>, <<"U+2F836", <<"U+53CA">>>>,
      <<"U+2F837", <<"U+53DF">>>>, <<"U+2F838", <<"U+20B63">>>>,
      <<"U+2F839", <<"U+53EB">>>>, <<"U+2F83A", <<"U+53F1">>>>,
      <<"U+2F83B", <<"U+5406">>>>, <<"U+2F83C", <<"U+549E">>>>,
      <<"U+2F83D", <<"U+5438">>>>, <<"U+2F83E", <<"U+5448">>>>,
      <<"U+2F83F", <<"U+5468">>>>, <<"U+2F840", <<"U+54A2">>>>,
      <<"U+2F841", <<"U+54F6">>>>, <<"U+2F842", <<"U+5510">>>>,
      <<"U+2F843", <<"U+5553">>>>, <<"U+2F844", <<"U+5563">>>>,
      <<"U+2F845", <<"U+5584">>>>, <<"U+2F846", <<"U+5584">>>>,
      <<"U+2F847", <<"U+5599">>>>, <<"U+2F848", <<"U+55AB">>>>,
      <<"U+2F849", <<"U+55B3">>>>, <<"U+2F84A", <<"U+55C2">>>>,
      <<"U+2F84B", <<"U+5716">>>>, <<"U+2F84C", <<"U+5606">>>>,
      <<"U+2F84D", <<"U+5717">>>>, <<"U+2F84E", <<"U+5651">>>>,
      <<"U+2F84F", <<"U+5674">>>>, <<"U+2F850", <<"U+5207">>>>,
      <<"U+2F851", <<"U+58EE">>>>, <<"U+2F852", <<"U+57CE">>>>,
      <<"U+2F853", <<"U+57F4">>>>, <<"U+2F854", <<"U+580D">>>>,
      <<"U+2F855", <<"U+578B">>>>, <<"U+2F856", <<"U+5832">>>>,
      <<"U+2F857", <<"U+5831">>>>, <<"U+2F858", <<"U+58AC">>>>,
      <<"U+2F859", <<"U+214E4">>>>, <<"U+2F85A", <<"U+58F2">>>>,
      <<"U+2F85B", <<"U+58F7">>>>, <<"U+2F85C", <<"U+5906">>>>,
      <<"U+2F85D", <<"U+591A">>>>, <<"U+2F85E", <<"U+5922">>>>,
      <<"U+2F85F", <<"U+5962">>>>, <<"U+2F860", <<"U+216A8">>>>,
      <<"U+2F861", <<"U+216EA">>>>, <<"U+2F862", <<"U+59EC">>>>,
      <<"U+2F863", <<"U+5A1B">>>>, <<"U+2F864", <<"U+5A27">>>>,
      <<"U+2F865", <<"U+59D8">>>>, <<"U+2F866", <<"U+5A66">>>>,
      <<"U+2F867", <<"U+36EE">>>>, <<"U+2F868", <<"U+36FC">>>>,
      <<"U+2F869", <<"U+5B08">>>>, <<"U+2F86A", <<"U+5B3E">>>>,
      <<"U+2F86B", <<"U+5B3E">>>>, <<"U+2F86C", <<"U+219C8">>>>,
      <<"U+2F86D", <<"U+5BC3">>>>, <<"U+2F86E", <<"U+5BD8">>>>,
      <<"U+2F86F", <<"U+5BE7">>>>, <<"U+2F870", <<"U+5BF3">>>>,
      <<"U+2F871", <<"U+21B18">>>>, <<"U+2F872", <<"U+5BFF">>>>,
      <<"U+2F873", <<"U+5C06">>>>, <<"U+2F874", <<"U+5F53">>>>,
      <<"U+2F875", <<"U+5C22">>>>, <<"U+2F876", <<"U+3781">>>>,
      <<"U+2F877", <<"U+5C60">>>>, <<"U+2F878", <<"U+5C6E">>>>,
      <<"U+2F879", <<"U+5CC0">>>>, <<"U+2F87A", <<"U+5C8D">>>>,
      <<"U+2F87B", <<"U+21DE4">>>>, <<"U+2F87C", <<"U+5D43">>>>,
      <<"U+2F87D", <<"U+21DE6">>>>, <<"U+2F87E", <<"U+5D6E">>>>,
      <<"U+2F87F", <<"U+5D6B">>>>, <<"U+2F880", <<"U+5D7C">>>>,
      <<"U+2F881", <<"U+5DE1">>>>, <<"U+2F882", <<"U+5DE2">>>>,
      <<"U+2F883", <<"U+382F">>>>, <<"U+2F884", <<"U+5DFD">>>>,
      <<"U+2F885", <<"U+5E28">>>>, <<"U+2F886", <<"U+5E3D">>>>,
      <<"U+2F887", <<"U+5E69">>>>, <<"U+2F888", <<"U+3862">>>>,
      <<"U+2F889", <<"U+22183">>>>, <<"U+2F88A", <<"U+387C">>>>,
      <<"U+2F88B", <<"U+5EB0">>>>, <<"U+2F88C", <<"U+5EB3">>>>,
      <<"U+2F88D", <<"U+5EB6">>>>, <<"U+2F88E", <<"U+5ECA">>>>,
      <<"U+2F88F", <<"U+2A392">>>>, <<"U+2F890", <<"U+5EFE">>>>,
      <<"U+2F891", <<"U+22331">>>>, <<"U+2F892", <<"U+22331">>>>,
      <<"U+2F893", <<"U+8201">>>>, <<"U+2F894", <<"U+5F22">>>>,
      <<"U+2F895", <<"U+5F22">>>>, <<"U+2F896", <<"U+38C7">>>>,
      <<"U+2F897", <<"U+232B8">>>>, <<"U+2F898", <<"U+261DA">>>>,
      <<"U+2F899", <<"U+5F62">>>>, <<"U+2F89A", <<"U+5F6B">>>>,
      <<"U+2F89B", <<"U+38E3">>>>, <<"U+2F89C", <<"U+5F9A">>>>,
      <<"U+2F89D", <<"U+5FCD">>>>, <<"U+2F89E", <<"U+5FD7">>>>,
      <<"U+2F89F", <<"U+5FF9">>>>, <<"U+2F8A0", <<"U+6081">>>>,
      <<"U+2F8A1", <<"U+393A">>>>, <<"U+2F8A2", <<"U+391C">>>>,
      <<"U+2F8A3", <<"U+6094">>>>, <<"U+2F8A4", <<"U+226D4">>>>,
      <<"U+2F8A5", <<"U+60C7">>>>, <<"U+2F8A6", <<"U+6148">>>>,
      <<"U+2F8A7", <<"U+614C">>>>, <<"U+2F8A8", <<"U+614E">>>>,
      <<"U+2F8A9", <<"U+614C">>>>, <<"U+2F8AA", <<"U+617A">>>>,
      <<"U+2F8AB", <<"U+618E">>>>, <<"U+2F8AC", <<"U+61B2">>>>,
      <<"U+2F8AD", <<"U+61A4">>>>, <<"U+2F8AE", <<"U+61AF">>>>,
      <<"U+2F8AF", <<"U+61DE">>>>, <<"U+2F8B0", <<"U+61F2">>>>,
      <<"U+2F8B1", <<"U+61F6">>>>, <<"U+2F8B2", <<"U+6210">>>>,
      <<"U+2F8B3", <<"U+621B">>>>, <<"U+2F8B4", <<"U+625D">>>>,
      <<"U+2F8B5", <<"U+62B1">>>>, <<"U+2F8B6", <<"U+62D4">>>>,
      <<"U+2F8B7", <<"U+6350">>>>, <<"U+2F8B8", <<"U+22B0C">>>>,
      <<"U+2F8B9", <<"U+633D">>>>, <<"U+2F8BA", <<"U+62FC">>>>,
      <<"U+2F8BB", <<"U+6368">>>>, <<"U+2F8BC", <<"U+6383">>>>,
      <<"U+2F8BD", <<"U+63E4">>>>, <<"U+2F8BE", <<"U+22BF1">>>>,
      <<"U+2F8BF", <<"U+6422">>>>, <<"U+2F8C0", <<"U+63C5">>>>,
      <<"U+2F8C1", <<"U+63A9">>>>, <<"U+2F8C2", <<"U+3A2E">>>>,
      <<"U+2F8C3", <<"U+6469">>>>, <<"U+2F8C4", <<"U+647E">>>>,
      <<"U+2F8C5", <<"U+649D">>>>, <<"U+2F8C6", <<"U+6477">>>>,
      <<"U+2F8C7", <<"U+3A6C">>>>, <<"U+2F8C8", <<"U+654F">>>>,
      <<"U+2F8C9", <<"U+656C">>>>, <<"U+2F8CA", <<"U+2300A">>>>,
      <<"U+2F8CB", <<"U+65E3">>>>, <<"U+2F8CC", <<"U+66F8">>>>,
      <<"U+2F8CD", <<"U+6649">>>>, <<"U+2F8CE", <<"U+3B19">>>>,
      <<"U+2F8CF", <<"U+6691">>>>, <<"U+2F8D0", <<"U+3B08">>>>,
      <<"U+2F8D1", <<"U+3AE4">>>>, <<"U+2F8D2", <<"U+5192">>>>,
      <<"U+2F8D3", <<"U+5195">>>>, <<"U+2F8D4", <<"U+6700">>>>,
      <<"U+2F8D5", <<"U+669C">>>>, <<"U+2F8D6", <<"U+80AD">>>>,
      <<"U+2F8D7", <<"U+43D9">>>>, <<"U+2F8D8", <<"U+6717">>>>,
      <<"U+2F8D9", <<"U+671B">>>>, <<"U+2F8DA", <<"U+6721">>>>,
      <<"U+2F8DB", <<"U+675E">>>>, <<"U+2F8DC", <<"U+6753">>>>,
      <<"U+2F8DD", <<"U+233C3">>>>, <<"U+2F8DE", <<"U+3B49">>>>,
      <<"U+2F8DF", <<"U+67FA">>>>, <<"U+2F8E0", <<"U+6785">>>>,
      <<"U+2F8E1", <<"U+6852">>>>, <<"U+2F8E2", <<"U+6885">>>>,
      <<"U+2F8E3", <<"U+2346D">>>>, <<"U+2F8E4", <<"U+688E">>>>,
      <<"U+2F8E5", <<"U+681F">>>>, <<"U+2F8E6", <<"U+6914">>>>,
      <<"U+2F8E7", <<"U+3B9D">>>>, <<"U+2F8E8", <<"U+6942">>>>,
      <<"U+2F8E9", <<"U+69A3">>>>, <<"U+2F8EA", <<"U+69EA">>>>,
      <<"U+2F8EB", <<"U+6AA8">>>>, <<"U+2F8EC", <<"U+236A3">>>>,
      <<"U+2F8ED", <<"U+6ADB">>>>, <<"U+2F8EE", <<"U+3C18">>>>,
      <<"U+2F8EF", <<"U+6B21">>>>, <<"U+2F8F0", <<"U+238A7">>>>,
      <<"U+2F8F1", <<"U+6B54">>>>, <<"U+2F8F2", <<"U+3C4E">>>>,
      <<"U+2F8F3", <<"U+6B72">>>>, <<"U+2F8F4", <<"U+6B9F">>>>,
      <<"U+2F8F5", <<"U+6BBA">>>>, <<"U+2F8F6", <<"U+6BBB">>>>,
      <<"U+2F8F7", <<"U+23A8D">>>>, <<"U+2F8F8", <<"U+21D0B">>>>,
      <<"U+2F8F9", <<"U+23AFA">>>>, <<"U+2F8FA", <<"U+6C4E">>>>,
      <<"U+2F8FB", <<"U+23CBC">>>>, <<"U+2F8FC", <<"U+6CBF">>>>,
      <<"U+2F8FD", <<"U+6CCD">>>>, <<"U+2F8FE", <<"U+6C67">>>>,
      <<"U+2F8FF", <<"U+6D16">>>>, <<"U+2F900", <<"U+6D3E">>>>,
      <<"U+2F901", <<"U+6D77">>>>, <<"U+2F902", <<"U+6D41">>>>,
      <<"U+2F903", <<"U+6D69">>>>, <<"U+2F904", <<"U+6D78">>>>,
      <<"U+2F905", <<"U+6D85">>>>, <<"U+2F906", <<"U+23D1E">>>>,
      <<"U+2F907", <<"U+6D34">>>>, <<"U+2F908", <<"U+6E2F">>>>,
      <<"U+2F909", <<"U+6E6E">>>>, <<"U+2F90A", <<"U+3D33">>>>,
      <<"U+2F90B", <<"U+6ECB">>>>, <<"U+2F90C", <<"U+6EC7">>>>,
      <<"U+2F90D", <<"U+23ED1">>>>, <<"U+2F90E", <<"U+6DF9">>>>,
      <<"U+2F90F", <<"U+6F6E">>>>, <<"U+2F910", <<"U+23F5E">>>>,
      <<"U+2F911", <<"U+23F8E">>>>, <<"U+2F912", <<"U+6FC6">>>>,
      <<"U+2F913", <<"U+7039">>>>, <<"U+2F914", <<"U+701E">>>>,
      <<"U+2F915", <<"U+701B">>>>, <<"U+2F916", <<"U+3D96">>>>,
      <<"U+2F917", <<"U+704A">>>>, <<"U+2F918", <<"U+707D">>>>,
      <<"U+2F919", <<"U+7077">>>>, <<"U+2F91A", <<"U+70AD">>>>,
      <<"U+2F91B", <<"U+20525">>>>, <<"U+2F91C", <<"U+7145">>>>,
      <<"U+2F91D", <<"U+24263">>>>, <<"U+2F91E", <<"U+719C">>>>,
      <<"U+2F91F", <<"U+243AB">>>>, <<"U+2F920", <<"U+7228">>>>,
      <<"U+2F921", <<"U+7235">>>>, <<"U+2F922", <<"U+7250">>>>,
      <<"U+2F923", <<"U+24608">>>>, <<"U+2F924", <<"U+7280">>>>,
      <<"U+2F925", <<"U+7295">>>>, <<"U+2F926", <<"U+24735">>>>,
      <<"U+2F927", <<"U+24814">>>>, <<"U+2F928", <<"U+737A">>>>,
      <<"U+2F929", <<"U+738B">>>>, <<"U+2F92A", <<"U+3EAC">>>>,
      <<"U+2F92B", <<"U+73A5">>>>, <<"U+2F92C", <<"U+3EB8">>>>,
      <<"U+2F92D", <<"U+3EB8">>>>, <<"U+2F92E", <<"U+7447">>>>,
      <<"U+2F92F", <<"U+745C">>>>, <<"U+2F930", <<"U+7471">>>>,
      <<"U+2F931", <<"U+7485">>>>, <<"U+2F932", <<"U+74CA">>>>,
      <<"U+2F933", <<"U+3F1B">>>>, <<"U+2F934", <<"U+7524">>>>,
      <<"U+2F935", <<"U+24C36">>>>, <<"U+2F936", <<"U+753E">>>>,
      <<"U+2F937", <<"U+24C92">>>>, <<"U+2F938", <<"U+7570">>>>,
      <<"U+2F939", <<"U+2219F">>>>, <<"U+2F93A", <<"U+7610">>>>,
      <<"U+2F93B", <<"U+24FA1">>>>, <<"U+2F93C", <<"U+24FB8">>>>,
      <<"U+2F93D", <<"U+25044">>>>, <<"U+2F93E", <<"U+3FFC">>>>,
      <<"U+2F93F", <<"U+4008">>>>, <<"U+2F940", <<"U+76F4">>>>,
      <<"U+2F941", <<"U+250F3">>>>, <<"U+2F942", <<"U+250F2">>>>,
      <<"U+2F943", <<"U+25119">>>>, <<"U+2F944", <<"U+25133">>>>,
      <<"U+2F945", <<"U+771E">>>>, <<"U+2F946", <<"U+771F">>>>,
      <<"U+2F947", <<"U+771F">>>>, <<"U+2F948", <<"U+774A">>>>,
      <<"U+2F949", <<"U+4039">>>>, <<"U+2F94A", <<"U+778B">>>>,
      <<"U+2F94B", <<"U+4046">>>>, <<"U+2F94C", <<"U+4096">>>>,
      <<"U+2F94D", <<"U+2541D">>>>, <<"U+2F94E", <<"U+784E">>>>,
      <<"U+2F94F", <<"U+788C">>>>, <<"U+2F950", <<"U+78CC">>>>,
      <<"U+2F951", <<"U+40E3">>>>, <<"U+2F952", <<"U+25626">>>>,
      <<"U+2F953", <<"U+7956">>>>, <<"U+2F954", <<"U+2569A">>>>,
      <<"U+2F955", <<"U+256C5">>>>, <<"U+2F956", <<"U+798F">>>>,
      <<"U+2F957", <<"U+79EB">>>>, <<"U+2F958", <<"U+412F">>>>,
      <<"U+2F959", <<"U+7A40">>>>, <<"U+2F95A", <<"U+7A4A">>>>,
      <<"U+2F95B", <<"U+7A4F">>>>, <<"U+2F95C", <<"U+2597C">>>>,
      <<"U+2F95D", <<"U+25AA7">>>>, <<"U+2F95E", <<"U+25AA7">>>>,
      <<"U+2F95F", <<"U+7AEE">>>>, <<"U+2F960", <<"U+4202">>>>,
      <<"U+2F961", <<"U+25BAB">>>>, <<"U+2F962", <<"U+7BC6">>>>,
      <<"U+2F963", <<"U+7BC9">>>>, <<"U+2F964", <<"U+4227">>>>,
      <<"U+2F965", <<"U+25C80">>>>, <<"U+2F966", <<"U+7CD2">>>>,
      <<"U+2F967", <<"U+42A0">>>>, <<"U+2F968", <<"U+7CE8">>>>,
      <<"U+2F969", <<"U+7CE3">>>>, <<"U+2F96A", <<"U+7D00">>>>,
      <<"U+2F96B", <<"U+25F86">>>>, <<"U+2F96C", <<"U+7D63">>>>,
      <<"U+2F96D", <<"U+4301">>>>, <<"U+2F96E", <<"U+7DC7">>>>,
      <<"U+2F96F", <<"U+7E02">>>>, <<"U+2F970", <<"U+7E45">>>>,
      <<"U+2F971", <<"U+4334">>>>, <<"U+2F972", <<"U+26228">>>>,
      <<"U+2F973", <<"U+26247">>>>, <<"U+2F974", <<"U+4359">>>>,
      <<"U+2F975", <<"U+262D9">>>>, <<"U+2F976", <<"U+7F7A">>>>,
      <<"U+2F977", <<"U+2633E">>>>, <<"U+2F978", <<"U+7F95">>>>,
      <<"U+2F979", <<"U+7FFA">>>>, <<"U+2F97A", <<"U+8005">>>>,
      <<"U+2F97B", <<"U+264DA">>>>, <<"U+2F97C", <<"U+26523">>>>,
      <<"U+2F97D", <<"U+8060">>>>, <<"U+2F97E", <<"U+265A8">>>>,
      <<"U+2F97F", <<"U+8070">>>>, <<"U+2F980", <<"U+2335F">>>>,
      <<"U+2F981", <<"U+43D5">>>>, <<"U+2F982", <<"U+80B2">>>>,
      <<"U+2F983", <<"U+8103">>>>, <<"U+2F984", <<"U+440B">>>>,
      <<"U+2F985", <<"U+813E">>>>, <<"U+2F986", <<"U+5AB5">>>>,
      <<"U+2F987", <<"U+267A7">>>>, <<"U+2F988", <<"U+267B5">>>>,
      <<"U+2F989", <<"U+23393">>>>, <<"U+2F98A", <<"U+2339C">>>>,
      <<"U+2F98B", <<"U+8201">>>>, <<"U+2F98C", <<"U+8204">>>>,
      <<"U+2F98D", <<"U+8F9E">>>>, <<"U+2F98E", <<"U+446B">>>>,
      <<"U+2F98F", <<"U+8291">>>>, <<"U+2F990", <<"U+828B">>>>,
      <<"U+2F991", <<"U+829D">>>>, <<"U+2F992", <<"U+52B3">>>>,
      <<"U+2F993", <<"U+82B1">>>>, <<"U+2F994", <<"U+82B3">>>>,
      <<"U+2F995", <<"U+82BD">>>>, <<"U+2F996", <<"U+82E6">>>>,
      <<"U+2F997", <<"U+26B3C">>>>, <<"U+2F998", <<"U+82E5">>>>,
      <<"U+2F999", <<"U+831D">>>>, <<"U+2F99A", <<"U+8363">>>>,
      <<"U+2F99B", <<"U+83AD">>>>, <<"U+2F99C", <<"U+8323">>>>,
      <<"U+2F99D", <<"U+83BD">>>>, <<"U+2F99E", <<"U+83E7">>>>,
      <<"U+2F99F", <<"U+8457">>>>, <<"U+2F9A0", <<"U+8353">>>>,
      <<"U+2F9A1", <<"U+83CA">>>>, <<"U+2F9A2", <<"U+83CC">>>>,
      <<"U+2F9A3", <<"U+83DC">>>>, <<"U+2F9A4", <<"U+26C36">>>>,
      <<"U+2F9A5", <<"U+26D6B">>>>, <<"U+2F9A6", <<"U+26CD5">>>>,
      <<"U+2F9A7", <<"U+452B">>>>, <<"U+2F9A8", <<"U+84F1">>>>,
      <<"U+2F9A9", <<"U+84F3">>>>, <<"U+2F9AA", <<"U+8516">>>>,
      <<"U+2F9AB", <<"U+273CA">>>>, <<"U+2F9AC", <<"U+8564">>>>,
      <<"U+2F9AD", <<"U+26F2C">>>>, <<"U+2F9AE", <<"U+455D">>>>,
      <<"U+2F9AF", <<"U+4561">>>>, <<"U+2F9B0", <<"U+26FB1">>>>,
      <<"U+2F9B1", <<"U+270D2">>>>, <<"U+2F9B2", <<"U+456B">>>>,
      <<"U+2F9B3", <<"U+8650">>>>, <<"U+2F9B4", <<"U+865C">>>>,
      <<"U+2F9B5", <<"U+8667">>>>, <<"U+2F9B6", <<"U+8669">>>>,
      <<"U+2F9B7", <<"U+86A9">>>>, <<"U+2F9B8", <<"U+8688">>>>,
      <<"U+2F9B9", <<"U+870E">>>>, <<"U+2F9BA", <<"U+86E2">>>>,
      <<"U+2F9BB", <<"U+8779">>>>, <<"U+2F9BC", <<"U+8728">>>>,
      <<"U+2F9BD", <<"U+876B">>>>, <<"U+2F9BE", <<"U+8786">>>>,
      <<"U+2F9BF", <<"U+45D7">>>>, <<"U+2F9C0", <<"U+87E1">>>>,
      <<"U+2F9C1", <<"U+8801">>>>, <<"U+2F9C2", <<"U+45F9">>>>,
      <<"U+2F9C3", <<"U+8860">>>>, <<"U+2F9C4", <<"U+8863">>>>,
      <<"U+2F9C5", <<"U+27667">>>>, <<"U+2F9C6", <<"U+88D7">>>>,
      <<"U+2F9C7", <<"U+88DE">>>>, <<"U+2F9C8", <<"U+4635">>>>,
      <<"U+2F9C9", <<"U+88FA">>>>, <<"U+2F9CA", <<"U+34BB">>>>,
      <<"U+2F9CB", <<"U+278AE">>>>, <<"U+2F9CC", <<"U+27966">>>>,
      <<"U+2F9CD", <<"U+46BE">>>>, <<"U+2F9CE", <<"U+46C7">>>>,
      <<"U+2F9CF", <<"U+8AA0">>>>, <<"U+2F9D0", <<"U+8AED">>>>,
      <<"U+2F9D1", <<"U+8B8A">>>>, <<"U+2F9D2", <<"U+8C55">>>>,
      <<"U+2F9D3", <<"U+27CA8">>>>, <<"U+2F9D4", <<"U+8CAB">>>>,
      <<"U+2F9D5", <<"U+8CC1">>>>, <<"U+2F9D6", <<"U+8D1B">>>>,
      <<"U+2F9D7", <<"U+8D77">>>>, <<"U+2F9D8", <<"U+27F2F">>>>,
      <<"U+2F9D9", <<"U+20804">>>>, <<"U+2F9DA", <<"U+8DCB">>>>,
      <<"U+2F9DB", <<"U+8DBC">>>>, <<"U+2F9DC", <<"U+8DF0">>>>,
      <<"U+2F9DD", <<"U+208DE">>>>, <<"U+2F9DE", <<"U+8ED4">>>>,
      <<"U+2F9DF", <<"U+8F38">>>>, <<"U+2F9E0", <<"U+285D2">>>>,
      <<"U+2F9E1", <<"U+285ED">>>>, <<"U+2F9E2", <<"U+9094">>>>,
      <<"U+2F9E3", <<"U+90F1">>>>, <<"U+2F9E4", <<"U+9111">>>>,
      <<"U+2F9E5", <<"U+2872E">>>>, <<"U+2F9E6", <<"U+911B">>>>,
      <<"U+2F9E7", <<"U+9238">>>>, <<"U+2F9E8", <<"U+92D7">>>>,
      <<"U+2F9E9", <<"U+92D8">>>>, <<"U+2F9EA", <<"U+927C">>>>,
      <<"U+2F9EB", <<"U+93F9">>>>, <<"U+2F9EC", <<"U+9415">>>>,
      <<"U+2F9ED", <<"U+28BFA">>>>, <<"U+2F9EE", <<"U+958B">>>>,
      <<"U+2F9EF", <<"U+4995">>>>, <<"U+2F9F0", <<"U+95B7">>>>,
      <<"U+2F9F1", <<"U+28D77">>>>, <<"U+2F9F2", <<"U+49E6">>>>,
      <<"U+2F9F3", <<"U+96C3">>>>, <<"U+2F9F4", <<"U+5DB2">>>>,
      <<"U+2F9F5", <<"U+9723">>>>, <<"U+2F9F6", <<"U+29145">>>>,
      <<"U+2F9F7", <<"U+2921A">>>>, <<"U+2F9F8", <<"U+4A6E">>>>,
      <<"U+2F9F9", <<"U+4A76">>>>, <<"U+2F9FA", <<"U+97E0">>>>,
      <<"U+2F9FB", <<"U+2940A">>>>, <<"U+2F9FC", <<"U+4AB2">>>>,
      <<"U+2F9FD", <<"U+29496">>>>, <<"U+2F9FE", <<"U+980B">>>>,
      <<"U+2F9FF", <<"U+980B">>>>, <<"U+2FA00", <<"U+9829">>>>,
      <<"U+2FA01", <<"U+295B6">>>>, <<"U+2FA02", <<"U+98E2">>>>,
      <<"U+2FA03", <<"U+4B33">>>>, <<"U+2FA04", <<"U+9929">>>>,
      <<"U+2FA05", <<"U+99A7">>>>, <<"U+2FA06", <<"U+99C2">>>>,
      <<"U+2FA07", <<"U+99FE">>>>, <<"U+2FA08", <<"U+4BCE">>>>,
      <<"U+2FA09", <<"U+29B30">>>>, <<"U+2FA0A", <<"U+9B12">>>>,
      <<"U+2FA0B", <<"U+9C40">>>>, <<"U+2FA0C", <<"U+9CFD">>>>,
      <<"U+2FA0D", <<"U+4CCE">>>>, <<"U+2FA0E", <<"U+4CED">>>>,
      <<"U+2FA0F", <<"U+9D67">>>>, <<"U+2FA10", <<"U+2A0CE">>>>,
      <<"U+2FA11", <<"U+4CF8">>>>, <<"U+2FA12", <<"U+2A105">>>>,
      <<"U+2FA13", <<"U+2A20E">>>>, <<"U+2FA14", <<"U+2A291">>>>,
      <<"U+2FA15", <<"U+9EBB">>>>, <<"U+2FA16", <<"U+4D56">>>>,
      <<"U+2FA17", <<"U+9EF9">>>>, <<"U+2FA18", <<"U+9EFE">>>>,
      <<"U+2FA19", <<"U+9F05">>>>, <<"U+2FA1A", <<"U+9F0F">>>>,
      <<"U+2FA1B", <<"U+9F16">>>>, <<"U+2FA1C", <<"U+9F3B">>>>,
      <<"U+2FA1D", <<"U+2A600">>>> }

NFKDForm ==
    [c \in {p[1] : p \in NFKDTable} |->
        (CHOOSE p \in NFKDTable : p[1] = c)[2]]

\* the conjoining jamo the Hangul syllables are made of: the 19 leading
\* consonants, the 21 vowels and the 27 trailing consonants
HangulL ==
    << "U+1100", "U+1101", "U+1102", "U+1103", "U+1104", "U+1105",
       "U+1106", "U+1107", "U+1108", "U+1109", "U+110A", "U+110B", "U+110C",
       "U+110D", "U+110E", "U+110F", "U+1110", "U+1111", "U+1112" >>

HangulV ==
    << "U+1161", "U+1162", "U+1163", "U+1164", "U+1165", "U+1166",
       "U+1167", "U+1168", "U+1169", "U+116A", "U+116B", "U+116C", "U+116D",
       "U+116E", "U+116F", "U+1170", "U+1171", "U+1172", "U+1173", "U+1174",
       "U+1175" >>

HangulT ==
    << "U+11A8", "U+11A9", "U+11AA", "U+11AB", "U+11AC", "U+11AD",
       "U+11AE", "U+11AF", "U+11B0", "U+11B1", "U+11B2", "U+11B3", "U+11B4",
       "U+11B5", "U+11B6", "U+11B7", "U+11B8", "U+11B9", "U+11BA", "U+11BB",
       "U+11BC", "U+11BD", "U+11BE", "U+11BF", "U+11C0", "U+11C1", "U+11C2" >>

\* the Hangul syllables by leading consonant, vowel and trailing consonant
\* (first none, then the 27): unicodedata finds a syllable, and the jamo of
\* one, by arithmetic on the code points
HangulSyllables ==
    << << << "U+AC00", "U+AC01", "U+AC02", "U+AC03", "U+AC04", "U+AC05",
            "U+AC06", "U+AC07", "U+AC08", "U+AC09", "U+AC0A", "U+AC0B",
            "U+AC0C", "U+AC0D", "U+AC0E", "U+AC0F", "U+AC10", "U+AC11",
            "U+AC12", "U+AC13", "U+AC14", "U+AC15", "U+AC16", "U+AC17",
            "U+AC18", "U+AC19", "U+AC1A", "U+AC1B">>,
          << "U+AC1C", "U+AC1D", "U+AC1E", "U+AC1F", "U+AC20", "U+AC21",
            "U+AC22", "U+AC23", "U+AC24", "U+AC25", "U+AC26", "U+AC27",
            "U+AC28", "U+AC29", "U+AC2A", "U+AC2B", "U+AC2C", "U+AC2D",
            "U+AC2E", "U+AC2F", "U+AC30", "U+AC31", "U+AC32", "U+AC33",
            "U+AC34", "U+AC35", "U+AC36", "U+AC37">>,
          << "U+AC38", "U+AC39", "U+AC3A", "U+AC3B", "U+AC3C", "U+AC3D",
            "U+AC3E", "U+AC3F", "U+AC40", "U+AC41", "U+AC42", "U+AC43",
            "U+AC44", "U+AC45", "U+AC46", "U+AC47", "U+AC48", "U+AC49",
            "U+AC4A", "U+AC4B", "U+AC4C", "U+AC4D", "U+AC4E", "U+AC4F",
            "U+AC50", "U+AC51", "U+AC52", "U+AC53">>,
          << "U+AC54", "U+AC55", "U+AC56", "U+AC57", "U+AC58", "U+AC59",
            "U+AC5A", "U+AC5B", "U+AC5C", "U+AC5D", "U+AC5E", "U+AC5F",
            "U+AC60", "U+AC61", "U+AC62", "U+AC63", "U+AC64", "U+AC65",
            "U+AC66", "U+AC67", "U+AC68", "U+AC69", "U+AC6A", "U+AC6B",
            "U+AC6C", "U+AC6D", "U+AC6E", "U+AC6F">>,
          << "U+AC70", "U+AC71", "U+AC72", "U+AC73", "U+AC74", "U+AC75",
            "U+AC76", "U+AC77", "U+AC78", "U+AC79", "U+AC7A", "U+AC7B",
            "U+AC7C", "U+AC7D", "U+AC7E", "U+AC7F", "U+AC80", "U+AC81",
            "U+AC82", "U+AC83", "U+AC84", "U+AC85", "U+AC86", "U+AC87",
            "U+AC88", "U+AC89", "U+AC8A", "U+AC8B">>,
          << "U+AC8C", "U+AC8D", "U+AC8E", "U+AC8F", "U+AC90", "U+AC91",
            "U+AC92", "U+AC93", "U+AC94", "U+AC95", "U+AC96", "U+AC97",
            "U+AC98", "U+AC99", "U+AC9A", "U+AC9B", "U+AC9C", "U+AC9D",
            "U+AC9E", "U+AC9F", "U+ACA0", "U+ACA1", "U+ACA2", "U+ACA3",
            "U+ACA4", "U+ACA5", "U+ACA6", "U+ACA7">>,
          << "U+ACA8", "U+ACA9", "U+ACAA", "U+ACAB", "U+ACAC", "U+ACAD",
            "U+ACAE", "U+ACAF", "U+ACB0", "U+ACB1", "U+ACB2", "U+ACB3",
            "U+ACB4", "U+ACB5", "U+ACB6", "U+ACB7", "U+ACB8", "U+ACB9",
            "U+ACBA", "U+ACBB", "U+ACBC", "U+ACBD", "U+ACBE", "U+ACBF",
            "U+ACC0", "U+ACC1", "U+ACC2", "U+ACC3">>,
          << "U+ACC4", "U+ACC5", "U+ACC6", "U+ACC7", "U+ACC8", "U+ACC9",
            "U+ACCA", "U+ACCB", "U+ACCC", "U+ACCD", "U+ACCE", "U+ACCF",
            "U+ACD0", "U+ACD1", "U+ACD2", "U+ACD3", "U+ACD4", "U+ACD5",
            "U+ACD6", "U+ACD7", "U+ACD8", "U+ACD9", "U+ACDA", "U+ACDB",
            "U+ACDC", "U+ACDD", "U+ACDE", "U+ACDF">>,
          << "U+ACE0", "U+ACE1", "U+ACE2", "U+ACE3", "U+ACE4", "U+ACE5",
            "U+ACE6", "U+ACE7", "U+ACE8", "U+ACE9", "U+ACEA", "U+ACEB",
            "U+ACEC", "U+ACED", "U+ACEE", "U+ACEF", "U+ACF0", "U+ACF1",
            "U+ACF2", "U+ACF3", "U+ACF4", "U+ACF5", "U+ACF6", "U+ACF7",
            "U+ACF8", "U+ACF9", "U+ACFA", "U+ACFB">>,
          << "U+ACFC", "U+ACFD", "U+ACFE", "U+ACFF", "U+AD00", "U+AD01",
            "U+AD02", "U+AD03", "U+AD04", "U+AD05", "U+AD06", "U+AD07",
            "U+AD08", "U+AD09", "U+AD0A", "U+AD0B", "U+AD0C", "U+AD0D",
            "U+AD0E", "U+AD0F", "U+AD10", "U+AD11", "U+AD12", "U+AD13",
            "U+AD14", "U+AD15", "U+AD16", "U+AD17">>,
          << "U+AD18", "U+AD19", "U+AD1A", "U+AD1B", "U+AD1C", "U+AD1D",
            "U+AD1E", "U+AD1F", "U+AD20", "U+AD21", "U+AD22", "U+AD23",
            "U+AD24", "U+AD25", "U+AD26", "U+AD27", "U+AD28", "U+AD29",
            "U+AD2A", "U+AD2B", "U+AD2C", "U+AD2D", "U+AD2E", "U+AD2F",
            "U+AD30", "U+AD31", "U+AD32", "U+AD33">>,
          << "U+AD34", "U+AD35", "U+AD36", "U+AD37", "U+AD38", "U+AD39",
            "U+AD3A", "U+AD3B", "U+AD3C", "U+AD3D", "U+AD3E", "U+AD3F",
            "U+AD40", "U+AD41", "U+AD42", "U+AD43", "U+AD44", "U+AD45",
            "U+AD46", "U+AD47", "U+AD48", "U+AD49", "U+AD4A", "U+AD4B",
            "U+AD4C", "U+AD4D", "U+AD4E", "U+AD4F">>,
          << "U+AD50", "U+AD51", "U+AD52", "U+AD53", "U+AD54", "U+AD55",
            "U+AD56", "U+AD57", "U+AD58", "U+AD59", "U+AD5A", "U+AD5B",
            "U+AD5C", "U+AD5D", "U+AD5E", "U+AD5F", "U+AD60", "U+AD61",
            "U+AD62", "U+AD63", "U+AD64", "U+AD65", "U+AD66", "U+AD67",
            "U+AD68", "U+AD69", "U+AD6A", "U+AD6B">>,
          << "U+AD6C", "U+AD6D", "U+AD6E", "U+AD6F", "U+AD70", "U+AD71",
            "U+AD72", "U+AD73", "U+AD74", "U+AD75", "U+AD76", "U+AD77",
            "U+AD78", "U+AD79", "U+AD7A", "U+AD7B", "U+AD7C", "U+AD7D",
            "U+AD7E", "U+AD7F", "U+AD80", "U+AD81", "U+AD82", "U+AD83",
            "U+AD84", "U+AD85", "U+AD86", "U+AD87">>,
          << "U+AD88", "U+AD89", "U+AD8A", "U+AD8B", "U+AD8C", "U+AD8D",
            "U+AD8E", "U+AD8F", "U+AD90", "U+AD91", "U+AD92", "U+AD93",
            "U+AD94", "U+AD95", "U+AD96", "U+AD97", "U+AD98", "U+AD99",
            "U+AD9A", "U+AD9B", "U+AD9C", "U+AD9D", "U+AD9E", "U+AD9F",
            "U+ADA0", "U+ADA1", "U+ADA2", "U+ADA3">>,
          << "U+ADA4", "U+ADA5", "U+ADA6", "U+ADA7", "U+ADA8", "U+ADA9",
            "U+ADAA", "U+ADAB", "U+ADAC", "U+ADAD", "U+ADAE", "U+ADAF",
            "U+ADB0", "U+ADB1", "U+ADB2", "U+ADB3", "U+ADB4", "U+ADB5",
            "U+ADB6", "U+ADB7", "U+ADB8", "U+ADB9", "U+ADBA", "U+ADBB",
            "U+ADBC", "U+ADBD", "U+ADBE", "U+ADBF">>,
          << "U+ADC0", "U+ADC1", "U+ADC2", "U+ADC3", "U+ADC4", "U+ADC5",
            "U+ADC6", "U+ADC7", "U+ADC8", "U+ADC9", "U+ADCA", "U+ADCB",
            "U+ADCC", "U+ADCD", "U+ADCE", "U+ADCF", "U+ADD0", "U+ADD1",
            "U+ADD2", "U+ADD3", "U+ADD4", "U+ADD5", "U+ADD6", "U+ADD7",
            "U+ADD8", "U+ADD9", "U+ADDA", "U+ADDB">>,
          << "U+ADDC", "U+ADDD", "U+ADDE", "U+ADDF", "U+ADE0", "U+ADE1",
            "U+ADE2", "U+ADE3", "U+ADE4", "U+ADE5", "U+ADE6", "U+ADE7",
            "U+ADE8", "U+ADE9", "U+ADEA", "U+ADEB", "U+ADEC", "U+ADED",
            "U+ADEE", "U+ADEF", "U+ADF0", "U+ADF1", "U+ADF2", "U+ADF3",
            "U+ADF4", "U+ADF5", "U+ADF6", "U+ADF7">>,
          << "U+ADF8", "U+ADF9", "U+ADFA", "U+ADFB", "U+ADFC", "U+ADFD",
            "U+ADFE", "U+ADFF", "U+AE00", "U+AE01", "U+AE02", "U+AE03",
            "U+AE04", "U+AE05", "U+AE06", "U+AE07", "U+AE08", "U+AE09",
            "U+AE0A", "U+AE0B", "U+AE0C", "U+AE0D", "U+AE0E", "U+AE0F",
            "U+AE10", "U+AE11", "U+AE12", "U+AE13">>,
          << "U+AE14", "U+AE15", "U+AE16", "U+AE17", "U+AE18", "U+AE19",
            "U+AE1A", "U+AE1B", "U+AE1C", "U+AE1D", "U+AE1E", "U+AE1F",
            "U+AE20", "U+AE21", "U+AE22", "U+AE23", "U+AE24", "U+AE25",
            "U+AE26", "U+AE27", "U+AE28", "U+AE29", "U+AE2A", "U+AE2B",
            "U+AE2C", "U+AE2D", "U+AE2E", "U+AE2F">>,
          << "U+AE30", "U+AE31", "U+AE32", "U+AE33", "U+AE34", "U+AE35",
            "U+AE36", "U+AE37", "U+AE38", "U+AE39", "U+AE3A", "U+AE3B",
            "U+AE3C", "U+AE3D", "U+AE3E", "U+AE3F", "U+AE40", "U+AE41",
            "U+AE42", "U+AE43", "U+AE44", "U+AE45", "U+AE46", "U+AE47",
            "U+AE48", "U+AE49", "U+AE4A", "U+AE4B">> >>,
       << << "U+AE4C", "U+AE4D", "U+AE4E", "U+AE4F", "U+AE50", "U+AE51",
            "U+AE52", "U+AE53", "U+AE54", "U+AE55", "U+AE56", "U+AE57",
            "U+AE58", "U+AE59", "U+AE5A", "U+AE5B", "U+AE5C", "U+AE5D",
            "U+AE5E", "U+AE5F", "U+AE60", "U+AE61", "U+AE62", "U+AE63",
            "U+AE64", "U+AE65", "U+AE66", "U+AE67">>,
          << "U+AE68", "U+AE69", "U+AE6A", "U+AE6B", "U+AE6C", "U+AE6D",
            "U+AE6E", "U+AE6F", "U+AE70", "U+AE71", "U+AE72", "U+AE73",
            "U+AE74", "U+AE75", "U+AE76", "U+AE77", "U+AE78", "U+AE79",
            "U+AE7A", "U+AE7B", "U+AE7C", "U+AE7D", "U+AE7E", "U+AE7F",
            "U+AE80", "U+AE81", "U+AE82", "U+AE83">>,
          << "U+AE84", "U+AE85", "U+AE86", "U+AE87", "U+AE88", "U+AE89",
            "U+AE8A", "U+AE8B", "U+AE8C", "U+AE8D", "U+AE8E", "U+AE8F",
            "U+AE90", "U+AE91", "U+AE92", "U+AE93", "U+AE94", "U+AE95",
            "U+AE96", "U+AE97", "U+AE98", "U+AE99", "U+AE9A", "U+AE9B",
            "U+AE9C", "U+AE9D", "U+AE9E", "U+AE9F">>,
          << "U+AEA0", "U+AEA1", "U+AEA2", "U+AEA3", "U+AEA4", "U+AEA5",
            "U+AEA6", "U+AEA7", "U+AEA8", "U+AEA9", "U+AEAA", "U+AEAB",
            "U+AEAC", "U+AEAD", "U+AEAE", "U+AEAF", "U+AEB0", "U+AEB1",
            "U+AEB2", "U+AEB3", "U+AEB4", "U+AEB5", "U+AEB6", "U+AEB7",
            "U+AEB8", "U+AEB9", "U+AEBA", "U+AEBB">>,
          << "U+AEBC", "U+AEBD", "U+AEBE", "U+AEBF", "U+AEC0", "U+AEC1",
            "U+AEC2", "U+AEC3", "U+AEC4", "U+AEC5", "U+AEC6", "U+AEC7",
            "U+AEC8", "U+AEC9", "U+AECA", "U+AECB", "U+AECC", "U+AECD",
            "U+AECE", "U+AECF", "U+AED0", "U+AED1", "U+AED2", "U+AED3",
            "U+AED4", "U+AED5", "U+AED6", "U+AED7">>,
          << "U+AED8", "U+AED9", "U+AEDA", "U+AEDB", "U+AEDC", "U+AEDD",
            "U+AEDE", "U+AEDF", "U+AEE0", "U+AEE1", "U+AEE2", "U+AEE3",
            "U+AEE4", "U+AEE5", "U+AEE6", "U+AEE7", "U+AEE8", "U+AEE9",
            "U+AEEA", "U+AEEB", "U+AEEC", "U+AEED", "U+AEEE", "U+AEEF",
            "U+AEF0", "U+AEF1", "U+AEF2", "U+AEF3">>,
          << "U+AEF4", "U+AEF5", "U+AEF6", "U+AEF7", "U+AEF8", "U+AEF9",
            "U+AEFA", "U+AEFB", "U+AEFC", "U+AEFD", "U+AEFE", "U+AEFF",
            "U+AF00", "U+AF01", "U+AF02", "U+AF03", "U+AF04", "U+AF05",
            "U+AF06", "U+AF07", "U+AF08", "U+AF09", "U+AF0A", "U+AF0B",
            "U+AF0C", "U+AF0D", "U+AF0E", "U+AF0F">>,
          << "U+AF10", "U+AF11", "U+AF12", "U+AF13", "U+AF14", "U+AF15",
            "U+AF16", "U+AF17", "U+AF18", "U+AF19", "U+AF1A", "U+AF1B",
            "U+AF1C", "U+AF1D", "U+AF1E", "U+AF1F", "U+AF20", "U+AF21",
            "U+AF22", "U+AF23", "U+AF24", "U+AF25", "U+AF26", "U+AF27",
            "U+AF28", "U+AF29", "U+AF2A", "U+AF2B">>,
          << "U+AF2C", "U+AF2D", "U+AF2E", "U+AF2F", "U+AF30", "U+AF31",
            "U+AF32", "U+AF33", "U+AF34", "U+AF35", "U+AF36", "U+AF37",
            "U+AF38", "U+AF39", "U+AF3A", "U+AF3B", "U+AF3C", "U+AF3D",
            "U+AF3E", "U+AF3F", "U+AF40", "U+AF41", "U+AF42", "U+AF43",
            "U+AF44", "U+AF45", "U+AF46", "U+AF47">>,
          << "U+AF48", "U+AF49", "U+AF4A", "U+AF4B", "U+AF4C", "U+AF4D",
            "U+AF4E", "U+AF4F", "U+AF50", "U+AF51", "U+AF52", "U+AF53",
            "U+AF54", "U+AF55", "U+AF56", "U+AF57", "U+AF58", "U+AF59",
            "U+AF5A", "U+AF5B", "U+AF5C", "U+AF5D", "U+AF5E", "U+AF5F",
            "U+AF60", "U+AF61", "U+AF62", "U+AF63">>,
          << "U+AF64", "U+AF65", "U+AF66", "U+AF67", "U+AF68", "U+AF69",
            "U+AF6A", "U+AF6B", "U+AF6C", "U+AF6D", "U+AF6E", "U+AF6F",
            "U+AF70", "U+AF71", "U+AF72", "U+AF73", "U+AF74", "U+AF75",
            "U+AF76", "U+AF77", "U+AF78", "U+AF79", "U+AF7A", "U+AF7B",
            "U+AF7C", "U+AF7D", "U+AF7E", "U+AF7F">>,
          << "U+AF80", "U+AF81", "U+AF82", "U+AF83", "U+AF84", "U+AF85",
            "U+AF86", "U+AF87", "U+AF88", "U+AF89", "U+AF8A", "U+AF8B",
            "U+AF8C", "U+AF8D", "U+AF8E", "U+AF8F", "U+AF90", "U+AF91",
            "U+AF92", "U+AF93", "U+AF94", "U+AF95", "U+AF96", "U+AF97",
            "U+AF98", "U+AF99", "U+AF9A", "U+AF9B">>,
          << "U+AF9C", "U+AF9D", "U+AF9E", "U+AF9F", "U+AFA0", "U+AFA1",
            "U+AFA2", "U+AFA3", "U+AFA4", "U+AFA5", "U+AFA6", "U+AFA7",
            "U+AFA8", "U+AFA9", "U+AFAA", "U+AFAB", "U+AFAC", "U+AFAD",
            "U+AFAE", "U+AFAF", "U+AFB0", "U+AFB1", "U+AFB2", "U+AFB3",
            "U+AFB4", "U+AFB5", "U+AFB6", "U+AFB7">>,
          << "U+AFB8", "U+AFB9", "U+AFBA", "U+AFBB", "U+AFBC", "U+AFBD",
            "U+AFBE", "U+AFBF", "U+AFC0", "U+AFC1", "U+AFC2", "U+AFC3",
            "U+AFC4", "U+AFC5", "U+AFC6", "U+AFC7", "U+AFC8", "U+AFC9",
            "U+AFCA", "U+AFCB", "U+AFCC", "U+AFCD", "U+AFCE", "U+AFCF",
            "U+AFD0", "U+AFD1", "U+AFD2", "U+AFD3">>,
          << "U+AFD4", "U+AFD5", "U+AFD6", "U+AFD7", "U+AFD8", "U+AFD9",
            "U+AFDA", "U+AFDB", "U+AFDC", "U+AFDD", "U+AFDE", "U+AFDF",
            "U+AFE0", "U+AFE1", "U+AFE2", "U+AFE3", "U+AFE4", "U+AFE5",
            "U+AFE6", "U+AFE7", "U+AFE8", "U+AFE9", "U+AFEA", "U+AFEB",
            "U+AFEC", "U+AFED", "U+AFEE", "U+AFEF">>,
          << "U+AFF0", "U+AFF1", "U+AFF2", "U+AFF3", "U+AFF4", "U+AFF5",
            "U+AFF6", "U+AFF7", "U+AFF8", "U+AFF9", "U+AFFA", "U+AFFB",
            "U+AFFC", "U+AFFD", "U+AFFE", "U+AFFF", "U+B000", "U+B001",
            "U+B002", "U+B003", "U+B004", "U+B005", "U+B006", "U+B007",
            "U+B008", "U+B009", "U+B00A", "U+B00B">>,
          << "U+B00C", "U+B00D", "U+B00E", "U+B00F", "U+B010", "U+B011",
            "U+B012", "U+B013", "U+B014", "U+B015", "U+B016", "U+B017",
            "U+B018", "U+B019", "U+B01A", "U+B01B", "U+B01C", "U+B01D",
            "U+B01E", "U+B01F", "U+B020", "U+B021", "U+B022", "U+B023",
            "U+B024", "U+B025", "U+B026", "U+B027">>,
          << "U+B028", "U+B029", "U+B02A", "U+B02B", "U+B02C", "U+B02D",
            "U+B02E", "U+B02F", "U+B030", "U+B031", "U+B032", "U+B033",
            "U+B034", "U+B035", "U+B036", "U+B037", "U+B038", "U+B039",
            "U+B03A", "U+B03B", "U+B03C", "U+B03D", "U+B03E", "U+B03F",
            "U+B040", "U+B041", "U+B042", "U+B043">>,
          << "U+B044", "U+B045", "U+B046", "U+B047", "U+B048", "U+B049",
            "U+B04A", "U+B04B", "U+B04C", "U+B04D", "U+B04E", "U+B04F",
            "U+B050", "U+B051", "U+B052", "U+B053", "U+B054", "U+B055",
            "U+B056", "U+B057", "U+B058", "U+B059", "U+B05A", "U+B05B",
            "U+B05C", "U+B05D", "U+B05E", "U+B05F">>,
          << "U+B060", "U+B061", "U+B062", "U+B063", "U+B064", "U+B065",
            "U+B066", "U+B067", "U+B068", "U+B069", "U+B06A", "U+B06B",
            "U+B06C", "U+B06D", "U+B06E", "U+B06F", "U+B070", "U+B071",
            "U+B072", "U+B073", "U+B074", "U+B075", "U+B076", "U+B077",
            "U+B078", "U+B079", "U+B07A", "U+B07B">>,
          << "U+B07C", "U+B07D", "U+B07E", "U+B07F", "U+B080", "U+B081",
            "U+B082", "U+B083", "U+B084", "U+B085", "U+B086", "U+B087",
            "U+B088", "U+B089", "U+B08A", "U+B08B", "U+B08C", "U+B08D",
            "U+B08E", "U+B08F", "U+B090", "U+B091", "U+B092", "U+B093",
            "U+B094", "U+B095", "U+B096", "U+B097">> >>,
       << << "U+B098", "U+B099", "U+B09A", "U+B09B", "U+B09C", "U+B09D",
            "U+B09E", "U+B09F", "U+B0A0", "U+B0A1", "U+B0A2", "U+B0A3",
            "U+B0A4", "U+B0A5", "U+B0A6", "U+B0A7", "U+B0A8", "U+B0A9",
            "U+B0AA", "U+B0AB", "U+B0AC", "U+B0AD", "U+B0AE", "U+B0AF",
            "U+B0B0", "U+B0B1", "U+B0B2", "U+B0B3">>,
          << "U+B0B4", "U+B0B5", "U+B0B6", "U+B0B7", "U+B0B8", "U+B0B9",
            "U+B0BA", "U+B0BB", "U+B0BC", "U+B0BD", "U+B0BE", "U+B0BF",
            "U+B0C0", "U+B0C1", "U+B0C2", "U+B0C3", "U+B0C4", "U+B0C5",
            "U+B0C6", "U+B0C7", "U+B0C8", "U+B0C9", "U+B0CA", "U+B0CB",
            "U+B0CC", "U+B0CD", "U+B0CE", "U+B0CF">>,
          << "U+B0D0", "U+B0D1", "U+B0D2", "U+B0D3", "U+B0D4", "U+B0D5",
            "U+B0D6", "U+B0D7", "U+B0D8", "U+B0D9", "U+B0DA", "U+B0DB",
            "U+B0DC", "U+B0DD", "U+B0DE", "U+B0DF", "U+B0E0", "U+B0E1",
            "U+B0E2", "U+B0E3", "U+B0E4", "U+B0E5", "U+B0E6", "U+B0E7",
            "U+B0E8", "U+B0E9", "U+B0EA", "U+B0EB">>,
          << "U+B0EC", "U+B0ED", "U+B0EE", "U+B0EF", "U+B0F0", "U+B0F1",
            "U+B0F2", "U+B0F3", "U+B0F4", "U+B0F5", "U+B0F6", "U+B0F7",
            "U+B0F8", "U+B0F9", "U+B0FA", "U+B0FB", "U+B0FC", "U+B0FD",
            "U+B0FE", "U+B0FF", "U+B100", "U+B101", "U+B102", "U+B103",
            "U+B104", "U+B105", "U+B106", "U+B107">>,
          << "U+B108", "U+B109", "U+B10A", "U+B10B", "U+B10C", "U+B10D",
            "U+B10E", "U+B10F", "U+B110", "U+B111", "U+B112", "U+B113",
            "U+B114", "U+B115", "U+B116", "U+B117", "U+B118", "U+B119",
            "U+B11A", "U+B11B", "U+B11C", "U+B11D", "U+B11E", "U+B11F",
            "U+B120", "U+B121", "U+B122", "U+B123">>,
          << "U+B124", "U+B125", "U+B126", "U+B127", "U+B128", "U+B129",
            "U+B12A", "U+B12B", "U+B12C", "U+B12D", "U+B12E", "U+B12F",
            "U+B130", "U+B131", "U+B132", "U+B133", "U+B134", "U+B135",
            "U+B136", "U+B137", "U+B138", "U+B139", "U+B13A", "U+B13B",
            "U+B13C", "U+B13D", "U+B13E", "U+B13F">>,
          << "U+B140", "U+B141", "U+B142", "U+B143", "U+B144", "U+B145",
            "U+B146", "U+B147", "U+B148", "U+B149", "U+B14A", "U+B14B",
            "U+B14C", "U+B14D", "U+B14E", "U+B14F", "U+B150", "U+B151",
            "U+B152", "U+B153", "U+B154", "U+B155", "U+B156", "U+B157",
            "U+B158", "U+B159", "U+B15A", "U+B15B">>,
          << "U+B15C", "U+B15D", "U+B15E", "U+B15F", "U+B160", "U+B161",
            "U+B162", "U+B163", "U+B164", "U+B165", "U+B166", "U+B167",
            "U+B168", "U+B169", "U+B16A", "U+B16B", "U+B16C", "U+B16D",
            "U+B16E", "U+B16F", "U+B170", "U+B171", "U+B172", "U+B173",
            "U+B174", "U+B175", "U+B176", "U+B177">>,
          << "U+B178", "U+B179", "U+B17A", "U+B17B", "U+B17C", "U+B17D",
            "U+B17E", "U+B17F", "U+B180", "U+B181", "U+B182", "U+B183",
            "U+B184", "U+B185", "U+B186", "U+B187", "U+B188", "U+B189",
            "U+B18A", "U+B18B", "U+B18C", "U+B18D", "U+B18E", "U+B18F",
            "U+B190", "U+B191", "U+B192", "U+B193">>,
          << "U+B194", "U+B195", "U+B196", "U+B197", "U+B198", "U+B199",
            "U+B19A", "U+B19B", "U+B19C", "U+B19D", "U+B19E", "U+B19F",
            "U+B1A0", "U+B1A1", "U+B1A2", "U+B1A3", "U+B1A4", "U+B1A5",
            "U+B1A6", "U+B1A7", "U+B1A8", "U+B1A9", "U+B1AA", "U+B1AB",
            "U+B1AC", "U+B1AD", "U+B1AE", "U+B1AF">>,
          << "U+B1B0", "U+B1B1", "U+B1B2", "U+B1B3", "U+B1B4", "U+B1B5",
            "U+B1B6", "U+B1B7", "U+B1B8", "U+B1B9", "U+B1BA", "U+B1BB",
            "U+B1BC", "U+B1BD", "U+B1BE", "U+B1BF", "U+B1C0", "U+B1C1",
            "U+B1C2", "U+B1C3", "U+B1C4", "U+B1C5", "U+B1C6", "U+B1C7",
            "U+B1C8", "U+B1C9", "U+B1CA", "U+B1CB">>,
          << "U+B1CC", "U+B1CD", "U+B1CE", "U+B1CF", "U+B1D0", "U+B1D1",
            "U+B1D2", "U+B1D3", "U+B1D4", "U+B1D5", "U+B1D6", "U+B1D7",
            "U+B1D8", "U+B1D9", "U+B1DA", "U+B1DB", "U+B1DC", "U+B1DD",
            "U+B1DE", "U+B1DF", "U+B1E0", "U+B1E1", "U+B1E2", "U+B1E3",
            "U+B1E4", "U+B1E5", "U+B1E6", "U+B1E7">>,
          << "U+B1E8", "U+B1E9", "U+B1EA", "U+B1EB", "U+B1EC", "U+B1ED",
            "U+B1EE", "U+B1EF", "U+B1F0", "U+B1F1", "U+B1F2", "U+B1F3",
            "U+B1F4", "U+B1F5", "U+B1F6", "U+B1F7", "U+B1F8", "U+B1F9",
            "U+B1FA", "U+B1FB", "U+B1FC", "U+B1FD", "U+B1FE", "U+B1FF",
            "U+B200", "U+B201", "U+B202", "U+B203">>,
          << "U+B204", "U+B205", "U+B206", "U+B207", "U+B208", "U+B209",
            "U+B20A", "U+B20B", "U+B20C", "U+B20D", "U+B20E", "U+B20F",
            "U+B210", "U+B211", "U+B212", "U+B213", "U+B214", "U+B215",
            "U+B216", "U+B217", "U+B218", "U+B219", "U+B21A", "U+B21B",
            "U+B21C", "U+B21D", "U+B21E", "U+B21F">>,
          << "U+B220", "U+B221", "U+B222", "U+B223", "U+B224", "U+B225",
            "U+B226", "U+B227", "U+B228", "U+B229", "U+B22A", "U+B22B",
            "U+B22C", "U+B22D", "U+B22E", "U+B22F", "U+B230", "U+B231",
            "U+B232", "U+B233", "U+B234", "U+B235", "U+B236", "U+B237",
            "U+B238", "U+B239", "U+B23A", "U+B23B">>,
          << "U+B23C", "U+B23D", "U+B23E", "U+B23F", "U+B240", "U+B241",
            "U+B242", "U+B243", "U+B244", "U+B245", "U+B246", "U+B247",
            "U+B248", "U+B249", "U+B24A", "U+B24B", "U+B24C", "U+B24D",
            "U+B24E", "U+B24F", "U+B250", "U+B251", "U+B252", "U+B253",
            "U+B254", "U+B255", "U+B256", "U+B257">>,
          << "U+B258", "U+B259", "U+B25A", "U+B25B", "U+B25C", "U+B25D",
            "U+B25E", "U+B25F", "U+B260", "U+B261", "U+B262", "U+B263",
            "U+B264", "U+B265", "U+B266", "U+B267", "U+B268", "U+B269",
            "U+B26A", "U+B26B", "U+B26C", "U+B26D", "U+B26E", "U+B26F",
            "U+B270", "U+B271", "U+B272", "U+B273">>,
          << "U+B274", "U+B275", "U+B276", "U+B277", "U+B278", "U+B279",
            "U+B27A", "U+B27B", "U+B27C", "U+B27D", "U+B27E", "U+B27F",
            "U+B280", "U+B281", "U+B282", "U+B283", "U+B284", "U+B285",
            "U+B286", "U+B287", "U+B288", "U+B289", "U+B28A", "U+B28B",
            "U+B28C", "U+B28D", "U+B28E", "U+B28F">>,
          << "U+B290", "U+B291", "U+B292", "U+B293", "U+B294", "U+B295",
            "U+B296", "U+B297", "U+B298", "U+B299", "U+B29A", "U+B29B",
            "U+B29C", "U+B29D", "U+B29E", "U+B29F", "U+B2A0", "U+B2A1",
            "U+B2A2", "U+B2A3", "U+B2A4", "U+B2A5", "U+B2A6", "U+B2A7",
            "U+B2A8", "U+B2A9", "U+B2AA", "U+B2AB">>,
          << "U+B2AC", "U+B2AD", "U+B2AE", "U+B2AF", "U+B2B0", "U+B2B1",
            "U+B2B2", "U+B2B3", "U+B2B4", "U+B2B5", "U+B2B6", "U+B2B7",
            "U+B2B8", "U+B2B9", "U+B2BA", "U+B2BB", "U+B2BC", "U+B2BD",
            "U+B2BE", "U+B2BF", "U+B2C0", "U+B2C1", "U+B2C2", "U+B2C3",
            "U+B2C4", "U+B2C5", "U+B2C6", "U+B2C7">>,
          << "U+B2C8", "U+B2C9", "U+B2CA", "U+B2CB", "U+B2CC", "U+B2CD",
            "U+B2CE", "U+B2CF", "U+B2D0", "U+B2D1", "U+B2D2", "U+B2D3",
            "U+B2D4", "U+B2D5", "U+B2D6", "U+B2D7", "U+B2D8", "U+B2D9",
            "U+B2DA", "U+B2DB", "U+B2DC", "U+B2DD", "U+B2DE", "U+B2DF",
            "U+B2E0", "U+B2E1", "U+B2E2", "U+B2E3">> >>,
       << << "U+B2E4", "U+B2E5", "U+B2E6", "U+B2E7", "U+B2E8", "U+B2E9",
            "U+B2EA", "U+B2EB", "U+B2EC", "U+B2ED", "U+B2EE", "U+B2EF",
            "U+B2F0", "U+B2F1", "U+B2F2", "U+B2F3", "U+B2F4", "U+B2F5",
            "U+B2F6", "U+B2F7", "U+B2F8", "U+B2F9", "U+B2FA", "U+B2FB",
            "U+B2FC", "U+B2FD", "U+B2FE", "U+B2FF">>,
          << "U+B300", "U+B301", "U+B302", "U+B303", "U+B304", "U+B305",
            "U+B306", "U+B307", "U+B308", "U+B309", "U+B30A", "U+B30B",
            "U+B30C", "U+B30D", "U+B30E", "U+B30F", "U+B310", "U+B311",
            "U+B312", "U+B313", "U+B314", "U+B315", "U+B316", "U+B317",
            "U+B318", "U+B319", "U+B31A", "U+B31B">>,
          << "U+B31C", "U+B31D", "U+B31E", "U+B31F", "U+B320", "U+B321",
            "U+B322", "U+B323", "U+B324", "U+B325", "U+B326", "U+B327",
            "U+B328", "U+B329", "U+B32A", "U+B32B", "U+B32C", "U+B32D",
            "U+B32E", "U+B32F", "U+B330", "U+B331", "U+B332", "U+B333",
            "U+B334", "U+B335", "U+B336", "U+B337">>,
          << "U+B338", "U+B339", "U+B33A", "U+B33B", "U+B33C", "U+B33D",
            "U+B33E", "U+B33F", "U+B340", "U+B341", "U+B342", "U+B343",
            "U+B344", "U+B345", "U+B346", "U+B347", "U+B348", "U+B349",
            "U+B34A", "U+B34B", "U+B34C", "U+B34D", "U+B34E", "U+B34F",
            "U+B350", "U+B351", "U+B352", "U+B353">>,
          << "U+B354", "U+B355", "U+B356", "U+B357", "U+B358", "U+B359",
            "U+B35A", "U+B35B", "U+B35C", "U+B35D", "U+B35E", "U+B35F",
            "U+B360", "U+B361", "U+B362", "U+B363", "U+B364", "U+B365",
            "U+B366", "U+B367", "U+B368", "U+B369", "U+B36A", "U+B36B",
            "U+B36C", "U+B36D", "U+B36E", "U+B36F">>,
          << "U+B370", "U+B371", "U+B372", "U+B373", "U+B374", "U+B375",
            "U+B376", "U+B377", "U+B378", "U+B379", "U+B37A", "U+B37B",
            "U+B37C", "U+B37D", "U+B37E", "U+B37F", "U+B380", "U+B381",
            "U+B382", "U+B383", "U+B384", "U+B385", "U+B386", "U+B387",
            "U+B388", "U+B389", "U+B38A", "U+B38B">>,
          << "U+B38C", "U+B38D", "U+B38E", "U+B38F", "U+B390", "U+B391",
            "U+B392", "U+B393", "U+B394", "U+B395", "U+B396", "U+B397",
            "U+B398", "U+B399", "U+B39A", "U+B39B", "U+B39C", "U+B39D",
            "U+B39E", "U+B39F", "U+B3A0", "U+B3A1", "U+B3A2", "U+B3A3",
            "U+B3A4", "U+B3A5", "U+B3A6", "U+B3A7">>,
          << "U+B3A8", "U+B3A9", "U+B3AA", "U+B3AB", "U+B3AC", "U+B3AD",
            "U+B3AE", "U+B3AF", "U+B3B0", "U+B3B1", "U+B3B2", "U+B3B3",
            "U+B3B4", "U+B3B5", "U+B3B6", "U+B3B7", "U+B3B8", "U+B3B9",
            "U+B3BA", "U+B3BB", "U+B3BC", "U+B3BD", "U+B3BE", "U+B3BF",
            "U+B3C0", "U+B3C1", "U+B3C2", "U+B3C3">>,
          << "U+B3C4", "U+B3C5", "U+B3C6", "U+B3C7", "U+B3C8", "U+B3C9",
            "U+B3CA", "U+B3CB", "U+B3CC", "U+B3CD", "U+B3CE", "U+B3CF",
            "U+B3D0", "U+B3D1", "U+B3D2", "U+B3D3", "U+B3D4", "U+B3D5",
            "U+B3D6", "U+B3D7", "U+B3D8", "U+B3D9", "U+B3DA", "U+B3DB",
            "U+B3DC", "U+B3DD", "U+B3DE", "U+B3DF">>,
          << "U+B3E0", "U+B3E1", "U+B3E2", "U+B3E3", "U+B3E4", "U+B3E5",
            "U+B3E6", "U+B3E7", "U+B3E8", "U+B3E9", "U+B3EA", "U+B3EB",
            "U+B3EC", "U+B3ED", "U+B3EE", "U+B3EF", "U+B3F0", "U+B3F1",
            "U+B3F2", "U+B3F3", "U+B3F4", "U+B3F5", "U+B3F6", "U+B3F7",
            "U+B3F8", "U+B3F9", "U+B3FA", "U+B3FB">>,
          << "U+B3FC", "U+B3FD", "U+B3FE", "U+B3FF", "U+B400", "U+B401",
            "U+B402", "U+B403", "U+B404", "U+B405", "U+B406", "U+B407",
            "U+B408", "U+B409", "U+B40A", "U+B40B", "U+B40C", "U+B40D",
            "U+B40E", "U+B40F", "U+B410", "U+B411", "U+B412", "U+B413",
            "U+B414", "U+B415", "U+B416", "U+B417">>,
          << "U+B418", "U+B419", "U+B41A", "U+B41B", "U+B41C", "U+B41D",
            "U+B41E", "U+B41F", "U+B420", "U+B421", "U+B422", "U+B423",
            "U+B424", "U+B425", "U+B426", "U+B427", "U+B428", "U+B429",
            "U+B42A", "U+B42B", "U+B42C", "U+B42D", "U+B42E", "U+B42F",
            "U+B430", "U+B431", "U+B432", "U+B433">>,
          << "U+B434", "U+B435", "U+B436", "U+B437", "U+B438", "U+B439",
            "U+B43A", "U+B43B", "U+B43C", "U+B43D", "U+B43E", "U+B43F",
            "U+B440", "U+B441", "U+B442", "U+B443", "U+B444", "U+B445",
            "U+B446", "U+B447", "U+B448", "U+B449", "U+B44A", "U+B44B",
            "U+B44C", "U+B44D", "U+B44E", "U+B44F">>,
          << "U+B450", "U+B451", "U+B452", "U+B453", "U+B454", "U+B455",
            "U+B456", "U+B457", "U+B458", "U+B459", "U+B45A", "U+B45B",
            "U+B45C", "U+B45D", "U+B45E", "U+B45F", "U+B460", "U+B461",
            "U+B462", "U+B463", "U+B464", "U+B465", "U+B466", "U+B467",
            "U+B468", "U+B469", "U+B46A", "U+B46B">>,
          << "U+B46C", "U+B46D", "U+B46E", "U+B46F", "U+B470", "U+B471",
            "U+B472", "U+B473", "U+B474", "U+B475", "U+B476", "U+B477",
            "U+B478", "U+B479", "U+B47A", "U+B47B", "U+B47C", "U+B47D",
            "U+B47E", "U+B47F", "U+B480", "U+B481", "U+B482", "U+B483",
            "U+B484", "U+B485", "U+B486", "U+B487">>,
          << "U+B488", "U+B489", "U+B48A", "U+B48B", "U+B48C", "U+B48D",
            "U+B48E", "U+B48F", "U+B490", "U+B491", "U+B492", "U+B493",
            "U+B494", "U+B495", "U+B496", "U+B497", "U+B498", "U+B499",
            "U+B49A", "U+B49B", "U+B49C", "U+B49D", "U+B49E", "U+B49F",
            "U+B4A0", "U+B4A1", "U+B4A2", "U+B4A3">>,
          << "U+B4A4", "U+B4A5", "U+B4A6", "U+B4A7", "U+B4A8", "U+B4A9",
            "U+B4AA", "U+B4AB", "U+B4AC", "U+B4AD", "U+B4AE", "U+B4AF",
            "U+B4B0", "U+B4B1", "U+B4B2", "U+B4B3", "U+B4B4", "U+B4B5",
            "U+B4B6", "U+B4B7", "U+B4B8", "U+B4B9", "U+B4BA", "U+B4BB",
            "U+B4BC", "U+B4BD", "U+B4BE", "U+B4BF">>,
          << "U+B4C0", "U+B4C1", "U+B4C2", "U+B4C3", "U+B4C4", "U+B4C5",
            "U+B4C6", "U+B4C7", "U+B4C8", "U+B4C9", "U+B4CA", "U+B4CB",
            "U+B4CC", "U+B4CD", "U+B4CE", "U+B4CF", "U+B4D0", "U+B4D1",
            "U+B4D2", "U+B4D3", "U+B4D4", "U+B4D5", "U+B4D6", "U+B4D7",
            "U+B4D8", "U+B4D9", "U+B4DA", "U+B4DB">>,
          << "U+B4DC", "U+B4DD", "U+B4DE", "U+B4DF", "U+B4E0", "U+B4E1",
            "U+B4E2", "U+B4E3", "U+B4E4", "U+B4E5", "U+B4E6", "U+B4E7",
            "U+B4E8", "U+B4E9", "U+B4EA", "U+B4EB", "U+B4EC", "U+B4ED",
            "U+B4EE", "U+B4EF", "U+B4F0", "U+B4F1", "U+B4F2", "U+B4F3",
            "U+B4F4", "U+B4F5", "U+B4F6", "U+B4F7">>,
          << "U+B4F8", "U+B4F9", "U+B4FA", "U+B4FB", "U+B4FC", "U+B4FD",
            "U+B4FE", "U+B4FF", "U+B500", "U+B501", "U+B502", "U+B503",
            "U+B504", "U+B505", "U+B506", "U+B507", "U+B508", "U+B509",
            "U+B50A", "U+B50B", "U+B50C", "U+B50D", "U+B50E", "U+B50F",
            "U+B510", "U+B511", "U+B512", "U+B513">>,
          << "U+B514", "U+B515", "U+B516", "U+B517", "U+B518", "U+B519",
            "U+B51A", "U+B51B", "U+B51C", "U+B51D", "U+B51E", "U+B51F",
            "U+B520", "U+B521", "U+B522", "U+B523", "U+B524", "U+B525",
            "U+B526", "U+B527", "U+B528", "U+B529", "U+B52A", "U+B52B",
            "U+B52C", "U+B52D", "U+B52E", "U+B52F">> >>,
       << << "U+B530", "U+B531", "U+B532", "U+B533", "U+B534", "U+B535",
            "U+B536", "U+B537", "U+B538", "U+B539", "U+B53A", "U+B53B",
            "U+B53C", "U+B53D", "U+B53E", "U+B53F", "U+B540", "U+B541",
            "U+B542", "U+B543", "U+B544", "U+B545", "U+B546", "U+B547",
            "U+B548", "U+B549", "U+B54A", "U+B54B">>,
          << "U+B54C", "U+B54D", "U+B54E", "U+B54F", "U+B550", "U+B551",
            "U+B552", "U+B553", "U+B554", "U+B555", "U+B556", "U+B557",
            "U+B558", "U+B559", "U+B55A", "U+B55B", "U+B55C", "U+B55D",
            "U+B55E", "U+B55F", "U+B560", "U+B561", "U+B562", "U+B563",
            "U+B564", "U+B565", "U+B566", "U+B567">>,
          << "U+B568", "U+B569", "U+B56A", "U+B56B", "U+B56C", "U+B56D",
            "U+B56E", "U+B56F", "U+B570", "U+B571", "U+B572", "U+B573",
            "U+B574", "U+B575", "U+B576", "U+B577", "U+B578", "U+B579",
            "U+B57A", "U+B57B", "U+B57C", "U+B57D", "U+B57E", "U+B57F",
            "U+B580", "U+B581", "U+B582", "U+B583">>,
          << "U+B584", "U+B585", "U+B586", "U+B587", "U+B588", "U+B589",
            "U+B58A", "U+B58B", "U+B58C", "U+B58D", "U+B58E", "U+B58F",
            "U+B590", "U+B591", "U+B592", "U+B593", "U+B594", "U+B595",
            "U+B596", "U+B597", "U+B598", "U+B599", "U+B59A", "U+B59B",
            "U+B59C", "U+B59D", "U+B59E", "U+B59F">>,
          << "U+B5A0", "U+B5A1", "U+B5A2", "U+B5A3", "U+B5A4", "U+B5A5",
            "U+B5A6", "U+B5A7", "U+B5A8", "U+B5A9", "U+B5AA", "U+B5AB",
            "U+B5AC", "U+B5AD", "U+B5AE", "U+B5AF", "U+B5B0", "U+B5B1",
            "U+B5B2", "U+B5B3", "U+B5B4", "U+B5B5", "U+B5B6", "U+B5B7",
            "U+B5B8", "U+B5B9", "U+B5BA", "U+B5BB">>,
          << "U+B5BC", "U+B5BD", "U+B5BE", "U+B5BF", "U+B5C0", "U+B5C1",
            "U+B5C2", "U+B5C3", "U+B5C4", "U+B5C5", "U+B5C6", "U+B5C7",
            "U+B5C8", "U+B5C9", "U+B5CA", "U+B5CB", "U+B5CC", "U+B5CD",
            "U+B5CE", "U+B5CF", "U+B5D0", "U+B5D1", "U+B5D2", "U+B5D3",
            "U+B5D4", "U+B5D5", "U+B5D6", "U+B5D7">>,
          << "U+B5D8", "U+B5D9", "U+B5DA", "U+B5DB", "U+B5DC", "U+B5DD",
            "U+B5DE", "U+B5DF", "U+B5E0", "U+B5E1", "U+B5E2", "U+B5E3",
            "U+B5E4", "U+B5E5", "U+B5E6", "U+B5E7", "U+B5E8", "U+B5E9",
            "U+B5EA", "U+B5EB", "U+B5EC", "U+B5ED", "U+B5EE", "U+B5EF",
            "U+B5F0", "U+B5F1", "U+B5F2", "U+B5F3">>,
          << "U+B5F4", "U+B5F5", "U+B5F6", "U+B5F7", "U+B5F8", "U+B5F9",
            "U+B5FA", "U+B5FB", "U+B5FC", "U+B5FD", "U+B5FE", "U+B5FF",
            "U+B600", "U+B601", "U+B602", "U+B603", "U+B604", "U+B605",
            "U+B606", "U+B607", "U+B608", "U+B609", "U+B60A", "U+B60B",
            "U+B60C", "U+B60D", "U+B60E", "U+B60F">>,
          << "U+B610", "U+B611", "U+B612", "U+B613", "U+B614", "U+B615",
            "U+B616", "U+B617", "U+B618", "U+B619", "U+B61A", "U+B61B",
            "U+B61C", "U+B61D", "U+B61E", "U+B61F", "U+B620", "U+B621",
            "U+B622", "U+B623", "U+B624", "U+B625", "U+B626", "U+B627",
            "U+B628", "U+B629", "U+B62A", "U+B62B">>,
          << "U+B62C", "U+B62D", "U+B62E", "U+B62F", "U+B630", "U+B631",
            "U+B632", "U+B633", "U+B634", "U+B635", "U+B636", "U+B637",
            "U+B638", "U+B639", "U+B63A", "U+B63B", "U+B63C", "U+B63D",
            "U+B63E", "U+B63F", "U+B640", "U+B641", "U+B642", "U+B643",
            "U+B644", "U+B645", "U+B646", "U+B647">>,
          << "U+B648", "U+B649", "U+B64A", "U+B64B", "U+B64C", "U+B64D",
            "U+B64E", "U+B64F", "U+B650", "U+B651", "U+B652", "U+B653",
            "U+B654", "U+B655", "U+B656", "U+B657", "U+B658", "U+B659",
            "U+B65A", "U+B65B", "U+B65C", "U+B65D", "U+B65E", "U+B65F",
            "U+B660", "U+B661", "U+B662", "U+B663">>,
          << "U+B664", "U+B665", "U+B666", "U+B667", "U+B668", "U+B669",
            "U+B66A", "U+B66B", "U+B66C", "U+B66D", "U+B66E", "U+B66F",
            "U+B670", "U+B671", "U+B672", "U+B673", "U+B674", "U+B675",
            "U+B676", "U+B677", "U+B678", "U+B679", "U+B67A", "U+B67B",
            "U+B67C", "U+B67D", "U+B67E", "U+B67F">>,
          << "U+B680", "U+B681", "U+B682", "U+B683", "U+B684", "U+B685",
            "U+B686", "U+B687", "U+B688", "U+B689", "U+B68A", "U+B68B",
            "U+B68C", "U+B68D", "U+B68E", "U+B68F", "U+B690", "U+B691",
            "U+B692", "U+B693", "U+B694", "U+B695", "U+B696", "U+B697",
            "U+B698", "U+B699", "U+B69A", "U+B69B">>,
          << "U+B69C", "U+B69D", "U+B69E", "U+B69F", "U+B6A0", "U+B6A1",
            "U+B6A2", "U+B6A3", "U+B6A4", "U+B6A5", "U+B6A6", "U+B6A7",
            "U+B6A8", "U+B6A9", "U+B6AA", "U+B6AB", "U+B6AC", "U+B6AD",
            "U+B6AE", "U+B6AF", "U+B6B0", "U+B6B1", "U+B6B2", "U+B6B3",
            "U+B6B4", "U+B6B5", "U+B6B6", "U+B6B7">>,
          << "U+B6B8", "U+B6B9", "U+B6BA", "U+B6BB", "U+B6BC", "U+B6BD",
            "U+B6BE", "U+B6BF", "U+B6C0", "U+B6C1", "U+B6C2", "U+B6C3",
            "U+B6C4", "U+B6C5", "U+B6C6", "U+B6C7", "U+B6C8", "U+B6C9",
            "U+B6CA", "U+B6CB", "U+B6CC", "U+B6CD", "U+B6CE", "U+B6CF",
            "U+B6D0", "U+B6D1", "U+B6D2", "U+B6D3">>,
          << "U+B6D4", "U+B6D5", "U+B6D6", "U+B6D7", "U+B6D8", "U+B6D9",
            "U+B6DA", "U+B6DB", "U+B6DC", "U+B6DD", "U+B6DE", "U+B6DF",
            "U+B6E0", "U+B6E1", "U+B6E2", "U+B6E3", "U+B6E4", "U+B6E5",
            "U+B6E6", "U+B6E7", "U+B6E8", "U+B6E9", "U+B6EA", "U+B6EB",
            "U+B6EC", "U+B6ED", "U+B6EE", "U+B6EF">>,
          << "U+B6F0", "U+B6F1", "U+B6F2", "U+B6F3", "U+B6F4", "U+B6F5",
            "U+B6F6", "U+B6F7", "U+B6F8", "U+B6F9", "U+B6FA", "U+B6FB",
            "U+B6FC", "U+B6FD", "U+B6FE", "U+B6FF", "U+B700", "U+B701",
            "U+B702", "U+B703", "U+B704", "U+B705", "U+B706", "U+B707",
            "U+B708", "U+B709", "U+B70A", "U+B70B">>,
          << "U+B70C", "U+B70D", "U+B70E", "U+B70F", "U+B710", "U+B711",
            "U+B712", "U+B713", "U+B714", "U+B715", "U+B716", "U+B717",
            "U+B718", "U+B719", "U+B71A", "U+B71B", "U+B71C", "U+B71D",
            "U+B71E", "U+B71F", "U+B720", "U+B721", "U+B722", "U+B723",
            "U+B724", "U+B725", "U+B726", "U+B727">>,
          << "U+B728", "U+B729", "U+B72A", "U+B72B", "U+B72C", "U+B72D",
            "U+B72E", "U+B72F", "U+B730", "U+B731", "U+B732", "U+B733",
            "U+B734", "U+B735", "U+B736", "U+B737", "U+B738", "U+B739",
            "U+B73A", "U+B73B", "U+B73C", "U+B73D", "U+B73E", "U+B73F",
            "U+B740", "U+B741", "U+B742", "U+B743">>,
          << "U+B744", "U+B745", "U+B746", "U+B747", "U+B748", "U+B749",
            "U+B74A", "U+B74B", "U+B74C", "U+B74D", "U+B74E", "U+B74F",
            "U+B750", "U+B751", "U+B752", "U+B753", "U+B754", "U+B755",
            "U+B756", "U+B757", "U+B758", "U+B759", "U+B75A", "U+B75B",
            "U+B75C", "U+B75D", "U+B75E", "U+B75F">>,
          << "U+B760", "U+B761", "U+B762", "U+B763", "U+B764", "U+B765",
            "U+B766", "U+B767", "U+B768", "U+B769", "U+B76A", "U+B76B",
            "U+B76C", "U+B76D", "U+B76E", "U+B76F", "U+B770", "U+B771",
            "U+B772", "U+B773", "U+B774", "U+B775", "U+B776", "U+B777",
            "U+B778", "U+B779", "U+B77A", "U+B77B">> >>,
       << << "U+B77C", "U+B77D", "U+B77E", "U+B77F", "U+B780", "U+B781",
            "U+B782", "U+B783", "U+B784", "U+B785", "U+B786", "U+B787",
            "U+B788", "U+B789", "U+B78A", "U+B78B", "U+B78C", "U+B78D",
            "U+B78E", "U+B78F", "U+B790", "U+B791", "U+B792", "U+B793",
            "U+B794", "U+B795", "U+B796", "U+B797">>,
          << "U+B798", "U+B799", "U+B79A", "U+B79B", "U+B79C", "U+B79D",
            "U+B79E", "U+B79F", "U+B7A0", "U+B7A1", "U+B7A2", "U+B7A3",
            "U+B7A4", "U+B7A5", "U+B7A6", "U+B7A7", "U+B7A8", "U+B7A9",
            "U+B7AA", "U+B7AB", "U+B7AC", "U+B7AD", "U+B7AE", "U+B7AF",
            "U+B7B0", "U+B7B1", "U+B7B2", "U+B7B3">>,
          << "U+B7B4", "U+B7B5", "U+B7B6", "U+B7B7", "U+B7B8", "U+B7B9",
            "U+B7BA", "U+B7BB", "U+B7BC", "U+B7BD", "U+B7BE", "U+B7BF",
            "U+B7C0", "U+B7C1", "U+B7C2", "U+B7C3", "U+B7C4", "U+B7C5",
            "U+B7C6", "U+B7C7", "U+B7C8", "U+B7C9", "U+B7CA", "U+B7CB",
            "U+B7CC", "U+B7CD", "U+B7CE", "U+B7CF">>,
          << "U+B7D0", "U+B7D1", "U+B7D2", "U+B7D3", "U+B7D4", "U+B7D5",
            "U+B7D6", "U+B7D7", "U+B7D8", "U+B7D9", "U+B7DA", "U+B7DB",
            "U+B7DC", "U+B7DD", "U+B7DE", "U+B7DF", "U+B7E0", "U+B7E1",
            "U+B7E2", "U+B7E3", "U+B7E4", "U+B7E5", "U+B7E6", "U+B7E7",
            "U+B7E8", "U+B7E9", "U+B7EA", "U+B7EB">>,
          << "U+B7EC", "U+B7ED", "U+B7EE", "U+B7EF", "U+B7F0", "U+B7F1",
            "U+B7F2", "U+B7F3", "U+B7F4", "U+B7F5", "U+B7F6", "U+B7F7",
            "U+B7F8", "U+B7F9", "U+B7FA", "U+B7FB", "U+B7FC", "U+B7FD",
            "U+B7FE", "U+B7FF", "U+B800", "U+B801", "U+B802", "U+B803",
            "U+B804", "U+B805", "U+B806", "U+B807">>,
          << "U+B808", "U+B809", "U+B80A", "U+B80B", "U+B80C", "U+B80D",
            "U+B80E", "U+B80F", "U+B810", "U+B811", "U+B812", "U+B813",
            "U+B814", "U+B815", "U+B816", "U+B817", "U+B818", "U+B819",
            "U+B81A", "U+B81B", "U+B81C", "U+B81D", "U+B81E", "U+B81F",
            "U+B820", "U+B821", "U+B822", "U+B823">>,
          << "U+B824", "U+B825", "U+B826", "U+B827", "U+B828", "U+B829",
            "U+B82A", "U+B82B", "U+B82C", "U+B82D", "U+B82E", "U+B82F",
            "U+B830", "U+B831", "U+B832", "U+B833", "U+B834", "U+B835",
            "U+B836", "U+B837", "U+B838", "U+B839", "U+B83A", "U+B83B",
            "U+B83C", "U+B83D", "U+B83E", "U+B83F">>,
          << "U+B840", "U+B841", "U+B842", "U+B843", "U+B844", "U+B845",
            "U+B846", "U+B847", "U+B848", "U+B849", "U+B84A", "U+B84B",
            "U+B84C", "U+B84D", "U+B84E", "U+B84F", "U+B850", "U+B851",
            "U+B852", "U+B853", "U+B854", "U+B855", "U+B856", "U+B857",
            "U+B858", "U+B859", "U+B85A", "U+B85B">>,
          << "U+B85C", "U+B85D", "U+B85E", "U+B85F", "U+B860", "U+B861",
            "U+B862", "U+B863", "U+B864", "U+B865", "U+B866", "U+B867",
            "U+B868", "U+B869", "U+B86A", "U+B86B", "U+B86C", "U+B86D",
            "U+B86E", "U+B86F", "U+B870", "U+B871", "U+B872", "U+B873",
            "U+B874", "U+B875", "U+B876", "U+B877">>,
          << "U+B878", "U+B879", "U+B87A", "U+B87B", "U+B87C", "U+B87D",
            "U+B87E", "U+B87F", "U+B880", "U+B881", "U+B882", "U+B883",
            "U+B884", "U+B885", "U+B886", "U+B887", "U+B888", "U+B889",
            "U+B88A", "U+B88B", "U+B88C", "U+B88D", "U+B88E", "U+B88F",
            "U+B890", "U+B891", "U+B892", "U+B893">>,
          << "U+B894", "U+B895", "U+B896", "U+B897", "U+B898", "U+B899",
            "U+B89A", "U+B89B", "U+B89C", "U+B89D", "U+B89E", "U+B89F",
            "U+B8A0", "U+B8A1", "U+B8A2", "U+B8A3", "U+B8A4", "U+B8A5",
            "U+B8A6", "U+B8A7", "U+B8A8", "U+B8A9", "U+B8AA", "U+B8AB",
            "U+B8AC", "U+B8AD", "U+B8AE", "U+B8AF">>,
          << "U+B8B0", "U+B8B1", "U+B8B2", "U+B8B3", "U+B8B4", "U+B8B5",
            "U+B8B6", "U+B8B7", "U+B8B8", "U+B8B9", "U+B8BA", "U+B8BB",
            "U+B8BC", "U+B8BD", "U+B8BE", "U+B8BF", "U+B8C0", "U+B8C1",
            "U+B8C2", "U+B8C3", "U+B8C4", "U+B8C5", "U+B8C6", "U+B8C7",
            "U+B8C8", "U+B8C9", "U+B8CA", "U+B8CB">>,
          << "U+B8CC", "U+B8CD", "U+B8CE", "U+B8CF", "U+B8D0", "U+B8D1",
            "U+B8D2", "U+B8D3", "U+B8D4", "U+B8D5", "U+B8D6", "U+B8D7",
            "U+B8D8", "U+B8D9", "U+B8DA", "U+B8DB", "U+B8DC", "U+B8DD",
            "U+B8DE", "U+B8DF", "U+B8E0", "U+B8E1", "U+B8E2", "U+B8E3",
            "U+B8E4", "U+B8E5", "U+B8E6", "U+B8E7">>,
          << "U+B8E8", "U+B8E9", "U+B8EA", "U+B8EB", "U+B8EC", "U+B8ED",
            "U+B8EE", "U+B8EF", "U+B8F0", "U+B8F1", "U+B8F2", "U+B8F3",
            "U+B8F4", "U+B8F5", "U+B8F6", "U+B8F7", "U+B8F8", "U+B8F9",
            "U+B8FA", "U+B8FB", "U+B8FC", "U+B8FD", "U+B8FE", "U+B8FF",
            "U+B900", "U+B901", "U+B902", "U+B903">>,
          << "U+B904", "U+B905", "U+B906", "U+B907", "U+B908", "U+B909",
            "U+B90A", "U+B90B", "U+B90C", "U+B90D", "U+B90E", "U+B90F",
            "U+B910", "U+B911", "U+B912", "U+B913", "U+B914", "U+B915",
            "U+B916", "U+B917", "U+B918", "U+B919", "U+B91A", "U+B91B",
            "U+B91C", "U+B91D", "U+B91E", "U+B91F">>,
          << "U+B920", "U+B921", "U+B922", "U+B923", "U+B924", "U+B925",
            "U+B926", "U+B927", "U+B928", "U+B929", "U+B92A", "U+B92B",
            "U+B92C", "U+B92D", "U+B92E", "U+B92F", "U+B930", "U+B931",
            "U+B932", "U+B933", "U+B934", "U+B935", "U+B936", "U+B937",
            "U+B938", "U+B939", "U+B93A", "U+B93B">>,
          << "U+B93C", "U+B93D", "U+B93E", "U+B93F", "U+B940", "U+B941",
            "U+B942", "U+B943", "U+B944", "U+B945", "U+B946", "U+B947",
            "U+B948", "U+B949", "U+B94A", "U+B94B", "U+B94C", "U+B94D",
            "U+B94E", "U+B94F", "U+B950", "U+B951", "U+B952", "U+B953",
            "U+B954", "U+B955", "U+B956", "U+B957">>,
          << "U+B958", "U+B959", "U+B95A", "U+B95B", "U+B95C", "U+B95D",
            "U+B95E", "U+B95F", "U+B960", "U+B961", "U+B962", "U+B963",
            "U+B964", "U+B965", "U+B966", "U+B967", "U+B968", "U+B969",
            "U+B96A", "U+B96B", "U+B96C", "U+B96D", "U+B96E", "U+B96F",
            "U+B970", "U+B971", "U+B972", "U+B973">>,
          << "U+B974", "U+B975", "U+B976", "U+B977", "U+B978", "U+B979",
            "U+B97A", "U+B97B", "U+B97C", "U+B97D", "U+B97E", "U+B97F",
            "U+B980", "U+B981", "U+B982", "U+B983", "U+B984", "U+B985",
            "U+B986", "U+B987", "U+B988", "U+B989", "U+B98A", "U+B98B",
            "U+B98C", "U+B98D", "U+B98E", "U+B98F">>,
          << "U+B990", "U+B991", "U+B992", "U+B993", "U+B994", "U+B995",
            "U+B996", "U+B997", "U+B998", "U+B999", "U+B99A", "U+B99B",
            "U+B99C", "U+B99D", "U+B99E", "U+B99F", "U+B9A0", "U+B9A1",
            "U+B9A2", "U+B9A3", "U+B9A4", "U+B9A5", "U+B9A6", "U+B9A7",
            "U+B9A8", "U+B9A9", "U+B9AA", "U+B9AB">>,
          << "U+B9AC", "U+B9AD", "U+B9AE", "U+B9AF", "U+B9B0", "U+B9B1",
            "U+B9B2", "U+B9B3", "U+B9B4", "U+B9B5", "U+B9B6", "U+B9B7",
            "U+B9B8", "U+B9B9", "U+B9BA", "U+B9BB", "U+B9BC", "U+B9BD",
            "U+B9BE", "U+B9BF", "U+B9C0", "U+B9C1", "U+B9C2", "U+B9C3",
            "U+B9C4", "U+B9C5", "U+B9C6", "U+B9C7">> >>,
       << << "U+B9C8", "U+B9C9", "U+B9CA", "U+B9CB", "U+B9CC", "U+B9CD",
            "U+B9CE", "U+B9CF", "U+B9D0", "U+B9D1", "U+B9D2", "U+B9D3",
            "U+B9D4", "U+B9D5", "U+B9D6", "U+B9D7", "U+B9D8", "U+B9D9",
            "U+B9DA", "U+B9DB", "U+B9DC", "U+B9DD", "U+B9DE", "U+B9DF",
            "U+B9E0", "U+B9E1", "U+B9E2", "U+B9E3">>,
          << "U+B9E4", "U+B9E5", "U+B9E6", "U+B9E7", "U+B9E8", "U+B9E9",
            "U+B9EA", "U+B9EB", "U+B9EC", "U+B9ED", "U+B9EE", "U+B9EF",
            "U+B9F0", "U+B9F1", "U+B9F2", "U+B9F3", "U+B9F4", "U+B9F5",
            "U+B9F6", "U+B9F7", "U+B9F8", "U+B9F9", "U+B9FA", "U+B9FB",
            "U+B9FC", "U+B9FD", "U+B9FE", "U+B9FF">>,
          << "U+BA00", "U+BA01", "U+BA02", "U+BA03", "U+BA04", "U+BA05",
            "U+BA06", "U+BA07", "U+BA08", "U+BA09", "U+BA0A", "U+BA0B",
            "U+BA0C", "U+BA0D", "U+BA0E", "U+BA0F", "U+BA10", "U+BA11",
            "U+BA12", "U+BA13", "U+BA14", "U+BA15", "U+BA16", "U+BA17",
            "U+BA18", "U+BA19", "U+BA1A", "U+BA1B">>,
          << "U+BA1C", "U+BA1D", "U+BA1E", "U+BA1F", "U+BA20", "U+BA21",
            "U+BA22", "U+BA23", "U+BA24", "U+BA25", "U+BA26", "U+BA27",
            "U+BA28", "U+BA29", "U+BA2A", "U+BA2B", "U+BA2C", "U+BA2D",
            "U+BA2E", "U+BA2F", "U+BA30", "U+BA31", "U+BA32", "U+BA33",
            "U+BA34", "U+BA35", "U+BA36", "U+BA37">>,
          << "U+BA38", "U+BA39", "U+BA3A", "U+BA3B", "U+BA3C", "U+BA3D",
            "U+BA3E", "U+BA3F", "U+BA40", "U+BA41", "U+BA42", "U+BA43",
            "U+BA44", "U+BA45", "U+BA46", "U+BA47", "U+BA48", "U+BA49",
            "U+BA4A", "U+BA4B", "U+BA4C", "U+BA4D", "U+BA4E", "U+BA4F",
            "U+BA50", "U+BA51", "U+BA52", "U+BA53">>,
          << "U+BA54", "U+BA55", "U+BA56", "U+BA57", "U+BA58", "U+BA59",
            "U+BA5A", "U+BA5B", "U+BA5C", "U+BA5D", "U+BA5E", "U+BA5F",
            "U+BA60", "U+BA61", "U+BA62", "U+BA63", "U+BA64", "U+BA65",
            "U+BA66", "U+BA67", "U+BA68", "U+BA69", "U+BA6A", "U+BA6B",
            "U+BA6C", "U+BA6D", "U+BA6E", "U+BA6F">>,
          << "U+BA70", "U+BA71", "U+BA72", "U+BA73", "U+BA74", "U+BA75",
            "U+BA76", "U+BA77", "U+BA78", "U+BA79", "U+BA7A", "U+BA7B",
            "U+BA7C", "U+BA7D", "U+BA7E", "U+BA7F", "U+BA80", "U+BA81",
            "U+BA82", "U+BA83", "U+BA84", "U+BA85", "U+BA86", "U+BA87",
            "U+BA88", "U+BA89", "U+BA8A", "U+BA8B">>,
          << "U+BA8C", "U+BA8D", "U+BA8E", "U+BA8F", "U+BA90", "U+BA91",
            "U+BA92", "U+BA93", "U+BA94", "U+BA95", "U+BA96", "U+BA97",
            "U+BA98", "U+BA99", "U+BA9A", "U+BA9B", "U+BA9C", "U+BA9D",
            "U+BA9E", "U+BA9F", "U+BAA0", "U+BAA1", "U+BAA2", "U+BAA3",
            "U+BAA4", "U+BAA5", "U+BAA6", "U+BAA7">>,
          << "U+BAA8", "U+BAA9", "U+BAAA", "U+BAAB", "U+BAAC", "U+BAAD",
            "U+BAAE", "U+BAAF", "U+BAB0", "U+BAB1", "U+BAB2", "U+BAB3",
            "U+BAB4", "U+BAB5", "U+BAB6", "U+BAB7", "U+BAB8", "U+BAB9",
            "U+BABA", "U+BABB", "U+BABC", "U+BABD", "U+BABE", "U+BABF",
            "U+BAC0", "U+BAC1", "U+BAC2", "U+BAC3">>,
          << "U+BAC4", "U+BAC5", "U+BAC6", "U+BAC7", "U+BAC8", "U+BAC9",
            "U+BACA", "U+BACB", "U+BACC", "U+BACD", "U+BACE", "U+BACF",
            "U+BAD0", "U+BAD1", "U+BAD2", "U+BAD3", "U+BAD4", "U+BAD5",
            "U+BAD6", "U+BAD7", "U+BAD8", "U+BAD9", "U+BADA", "U+BADB",
            "U+BADC", "U+BADD", "U+BADE", "U+BADF">>,
          << "U+BAE0", "U+BAE1", "U+BAE2", "U+BAE3", "U+BAE4", "U+BAE5",
            "U+BAE6", "U+BAE7", "U+BAE8", "U+BAE9", "U+BAEA", "U+BAEB",
            "U+BAEC", "U+BAED", "U+BAEE", "U+BAEF", "U+BAF0", "U+BAF1",
            "U+BAF2", "U+BAF3", "U+BAF4", "U+BAF5", "U+BAF6", "U+BAF7",
            "U+BAF8", "U+BAF9", "U+BAFA", "U+BAFB">>,
          << "U+BAFC", "U+BAFD", "U+BAFE", "U+BAFF", "U+BB00", "U+BB01",
            "U+BB02", "U+BB03", "U+BB04", "U+BB05", "U+BB06", "U+BB07",
            "U+BB08", "U+BB09", "U+BB0A", "U+BB0B", "U+BB0C", "U+BB0D",
            "U+BB0E", "U+BB0F", "U+BB10", "U+BB11", "U+BB12", "U+BB13",
            "U+BB14", "U+BB15", "U+BB16", "U+BB17">>,
          << "U+BB18", "U+BB19", "U+BB1A", "U+BB1B", "U+BB1C", "U+BB1D",
            "U+BB1E", "U+BB1F", "U+BB20", "U+BB21", "U+BB22", "U+BB23",
            "U+BB24", "U+BB25", "U+BB26", "U+BB27", "U+BB28", "U+BB29",
            "U+BB2A", "U+BB2B", "U+BB2C", "U+BB2D", "U+BB2E", "U+BB2F",
            "U+BB30", "U+BB31", "U+BB32", "U+BB33">>,
          << "U+BB34", "U+BB35", "U+BB36", "U+BB37", "U+BB38", "U+BB39",
            "U+BB3A", "U+BB3B", "U+BB3C", "U+BB3D", "U+BB3E", "U+BB3F",
            "U+BB40", "U+BB41", "U+BB42", "U+BB43", "U+BB44", "U+BB45",
            "U+BB46", "U+BB47", "U+BB48", "U+BB49", "U+BB4A", "U+BB4B",
            "U+BB4C", "U+BB4D", "U+BB4E", "U+BB4F">>,
          << "U+BB50", "U+BB51", "U+BB52", "U+BB53", "U+BB54", "U+BB55",
            "U+BB56", "U+BB57", "U+BB58", "U+BB59", "U+BB5A", "U+BB5B",
            "U+BB5C", "U+BB5D", "U+BB5E", "U+BB5F", "U+BB60", "U+BB61",
            "U+BB62", "U+BB63", "U+BB64", "U+BB65", "U+BB66", "U+BB67",
            "U+BB68", "U+BB69", "U+BB6A", "U+BB6B">>,
          << "U+BB6C", "U+BB6D", "U+BB6E", "U+BB6F", "U+BB70", "U+BB71",
            "U+BB72", "U+BB73", "U+BB74", "U+BB75", "U+BB76", "U+BB77",
            "U+BB78", "U+BB79", "U+BB7A", "U+BB7B", "U+BB7C", "U+BB7D",
            "U+BB7E", "U+BB7F", "U+BB80", "U+BB81", "U+BB82", "U+BB83",
            "U+BB84", "U+BB85", "U+BB86", "U+BB87">>,
          << "U+BB88", "U+BB89", "U+BB8A", "U+BB8B", "U+BB8C", "U+BB8D",
            "U+BB8E", "U+BB8F", "U+BB90", "U+BB91", "U+BB92", "U+BB93",
            "U+BB94", "U+BB95", "U+BB96", "U+BB97", "U+BB98", "U+BB99",
            "U+BB9A", "U+BB9B", "U+BB9C", "U+BB9D", "U+BB9E", "U+BB9F",
            "U+BBA0", "U+BBA1", "U+BBA2", "U+BBA3">>,
          << "U+BBA4", "U+BBA5", "U+BBA6", "U+BBA7", "U+BBA8", "U+BBA9",
            "U+BBAA", "U+BBAB", "U+BBAC", "U+BBAD", "U+BBAE", "U+BBAF",
            "U+BBB0", "U+BBB1", "U+BBB2", "U+BBB3", "U+BBB4", "U+BBB5",
            "U+BBB6", "U+BBB7", "U+BBB8", "U+BBB9", "U+BBBA", "U+BBBB",
            "U+BBBC", "U+BBBD", "U+BBBE", "U+BBBF">>,
          << "U+BBC0", "U+BBC1", "U+BBC2", "U+BBC3", "U+BBC4", "U+BBC5",
            "U+BBC6", "U+BBC7", "U+BBC8", "U+BBC9", "U+BBCA", "U+BBCB",
            "U+BBCC", "U+BBCD", "U+BBCE", "U+BBCF", "U+BBD0", "U+BBD1",
            "U+BBD2", "U+BBD3", "U+BBD4", "U+BBD5", "U+BBD6", "U+BBD7",
            "U+BBD8", "U+BBD9", "U+BBDA", "U+BBDB">>,
          << "U+BBDC", "U+BBDD", "U+BBDE", "U+BBDF", "U+BBE0", "U+BBE1",
            "U+BBE2", "U+BBE3", "U+BBE4", "U+BBE5", "U+BBE6", "U+BBE7",
            "U+BBE8", "U+BBE9", "U+BBEA", "U+BBEB", "U+BBEC", "U+BBED",
            "U+BBEE", "U+BBEF", "U+BBF0", "U+BBF1", "U+BBF2", "U+BBF3",
            "U+BBF4", "U+BBF5", "U+BBF6", "U+BBF7">>,
          << "U+BBF8", "U+BBF9", "U+BBFA", "U+BBFB", "U+BBFC", "U+BBFD",
            "U+BBFE", "U+BBFF", "U+BC00", "U+BC01", "U+BC02", "U+BC03",
            "U+BC04", "U+BC05", "U+BC06", "U+BC07", "U+BC08", "U+BC09",
            "U+BC0A", "U+BC0B", "U+BC0C", "U+BC0D", "U+BC0E", "U+BC0F",
            "U+BC10", "U+BC11", "U+BC12", "U+BC13">> >>,
       << << "U+BC14", "U+BC15", "U+BC16", "U+BC17", "U+BC18", "U+BC19",
            "U+BC1A", "U+BC1B", "U+BC1C", "U+BC1D", "U+BC1E", "U+BC1F",
            "U+BC20", "U+BC21", "U+BC22", "U+BC23", "U+BC24", "U+BC25",
            "U+BC26", "U+BC27", "U+BC28", "U+BC29", "U+BC2A", "U+BC2B",
            "U+BC2C", "U+BC2D", "U+BC2E", "U+BC2F">>,
          << "U+BC30", "U+BC31", "U+BC32", "U+BC33", "U+BC34", "U+BC35",
            "U+BC36", "U+BC37", "U+BC38", "U+BC39", "U+BC3A", "U+BC3B",
            "U+BC3C", "U+BC3D", "U+BC3E", "U+BC3F", "U+BC40", "U+BC41",
            "U+BC42", "U+BC43", "U+BC44", "U+BC45", "U+BC46", "U+BC47",
            "U+BC48", "U+BC49", "U+BC4A", "U+BC4B">>,
          << "U+BC4C", "U+BC4D", "U+BC4E", "U+BC4F", "U+BC50", "U+BC51",
            "U+BC52", "U+BC53", "U+BC54", "U+BC55", "U+BC56", "U+BC57",
            "U+BC58", "U+BC59", "U+BC5A", "U+BC5B", "U+BC5C", "U+BC5D",
            "U+BC5E", "U+BC5F", "U+BC60", "U+BC61", "U+BC62", "U+BC63",
            "U+BC64", "U+BC65", "U+BC66", "U+BC67">>,
          << "U+BC68", "U+BC69", "U+BC6A", "U+BC6B", "U+BC6C", "U+BC6D",
            "U+BC6E", "U+BC6F", "U+BC70", "U+BC71", "U+BC72", "U+BC73",
            "U+BC74", "U+BC75", "U+BC76", "U+BC77", "U+BC78", "U+BC79",
            "U+BC7A", "U+BC7B", "U+BC7C", "U+BC7D", "U+BC7E", "U+BC7F",
            "U+BC80", "U+BC81", "U+BC82", "U+BC83">>,
          << "U+BC84", "U+BC85", "U+BC86", "U+BC87", "U+BC88", "U+BC89",
            "U+BC8A", "U+BC8B", "U+BC8C", "U+BC8D", "U+BC8E", "U+BC8F",
            "U+BC90", "U+BC91", "U+BC92", "U+BC93", "U+BC94", "U+BC95",
            "U+BC96", "U+BC97", "U+BC98", "U+BC99", "U+BC9A", "U+BC9B",
            "U+BC9C", "U+BC9D", "U+BC9E", "U+BC9F">>,
          << "U+BCA0", "U+BCA1", "U+BCA2", "U+BCA3", "U+BCA4", "U+BCA5",
            "U+BCA6", "U+BCA7", "U+BCA8", "U+BCA9", "U+BCAA", "U+BCAB",
            "U+BCAC", "U+BCAD", "U+BCAE", "U+BCAF", "U+BCB0", "U+BCB1",
            "U+BCB2", "U+BCB3", "U+BCB4", "U+BCB5", "U+BCB6", "U+BCB7",
            "U+BCB8", "U+BCB9", "U+BCBA", "U+BCBB">>,
          << "U+BCBC", "U+BCBD", "U+BCBE", "U+BCBF", "U+BCC0", "U+BCC1",
            "U+BCC2", "U+BCC3", "U+BCC4", "U+BCC5", "U+BCC6", "U+BCC7",
            "U+BCC8", "U+BCC9", "U+BCCA", "U+BCCB", "U+BCCC", "U+BCCD",
            "U+BCCE", "U+BCCF", "U+BCD0", "U+BCD1", "U+BCD2", "U+BCD3",
            "U+BCD4", "U+BCD5", "U+BCD6", "U+BCD7">>,
          << "U+BCD8", "U+BCD9", "U+BCDA", "U+BCDB", "U+BCDC", "U+BCDD",
            "U+BCDE", "U+BCDF", "U+BCE0", "U+BCE1", "U+BCE2", "U+BCE3",
            "U+BCE4", "U+BCE5", "U+BCE6", "U+BCE7", "U+BCE8", "U+BCE9",
            "U+BCEA", "U+BCEB", "U+BCEC", "U+BCED", "U+BCEE", "U+BCEF",
            "U+BCF0", "U+BCF1", "U+BCF2", "U+BCF3">>,
          << "U+BCF4", "U+BCF5", "U+BCF6", "U+BCF7", "U+BCF8", "U+BCF9",
            "U+BCFA", "U+BCFB", "U+BCFC", "U+BCFD", "U+BCFE", "U+BCFF",
            "U+BD00", "U+BD01", "U+BD02", "U+BD03", "U+BD04", "U+BD05",
            "U+BD06", "U+BD07", "U+BD08", "U+BD09", "U+BD0A", "U+BD0B",
            "U+BD0C", "U+BD0D", "U+BD0E", "U+BD0F">>,
          << "U+BD10", "U+BD11", "U+BD12", "U+BD13", "U+BD14", "U+BD15",
            "U+BD16", "U+BD17", "U+BD18", "U+BD19", "U+BD1A", "U+BD1B",
            "U+BD1C", "U+BD1D", "U+BD1E", "U+BD1F", "U+BD20", "U+BD21",
            "U+BD22", "U+BD23", "U+BD24", "U+BD25", "U+BD26", "U+BD27",
            "U+BD28", "U+BD29", "U+BD2A", "U+BD2B">>,
          << "U+BD2C", "U+BD2D", "U+BD2E", "U+BD2F", "U+BD30", "U+BD31",
            "U+BD32", "U+BD33", "U+BD34", "U+BD35", "U+BD36", "U+BD37",
            "U+BD38", "U+BD39", "U+BD3A", "U+BD3B", "U+BD3C", "U+BD3D",
            "U+BD3E", "U+BD3F", "U+BD40", "U+BD41", "U+BD42", "U+BD43",
            "U+BD44", "U+BD45", "U+BD46", "U+BD47">>,
          << "U+BD48", "U+BD49", "U+BD4A", "U+BD4B", "U+BD4C", "U+BD4D",
            "U+BD4E", "U+BD4F", "U+BD50", "U+BD51", "U+BD52", "U+BD53",
            "U+BD54", "U+BD55", "U+BD56", "U+BD57", "U+BD58", "U+BD59",
            "U+BD5A", "U+BD5B", "U+BD5C", "U+BD5D", "U+BD5E", "U+BD5F",
            "U+BD60", "U+BD61", "U+BD62", "U+BD63">>,
          << "U+BD64", "U+BD65", "U+BD66", "U+BD67", "U+BD68", "U+BD69",
            "U+BD6A", "U+BD6B", "U+BD6C", "U+BD6D", "U+BD6E", "U+BD6F",
            "U+BD70", "U+BD71", "U+BD72", "U+BD73", "U+BD74", "U+BD75",
            "U+BD76", "U+BD77", "U+BD78", "U+BD79", "U+BD7A", "U+BD7B",
            "U+BD7C", "U+BD7D", "U+BD7E", "U+BD7F">>,
          << "U+BD80", "U+BD81", "U+BD82", "U+BD83", "U+BD84", "U+BD85",
            "U+BD86", "U+BD87", "U+BD88", "U+BD89", "U+BD8A", "U+BD8B",
            "U+BD8C", "U+BD8D", "U+BD8E", "U+BD8F", "U+BD90", "U+BD91",
            "U+BD92", "U+BD93", "U+BD94", "U+BD95", "U+BD96", "U+BD97",
            "U+BD98", "U+BD99", "U+BD9A", "U+BD9B">>,
          << "U+BD9C", "U+BD9D", "U+BD9E", "U+BD9F", "U+BDA0", "U+BDA1",
            "U+BDA2", "U+BDA3", "U+BDA4", "U+BDA5", "U+BDA6", "U+BDA7",
            "U+BDA8", "U+BDA9", "U+BDAA", "U+BDAB", "U+BDAC", "U+BDAD",
            "U+BDAE", "U+BDAF", "U+BDB0", "U+BDB1", "U+BDB2", "U+BDB3",
            "U+BDB4", "U+BDB5", "U+BDB6", "U+BDB7">>,
          << "U+BDB8", "U+BDB9", "U+BDBA", "U+BDBB", "U+BDBC", "U+BDBD",
            "U+BDBE", "U+BDBF", "U+BDC0", "U+BDC1", "U+BDC2", "U+BDC3",
            "U+BDC4", "U+BDC5", "U+BDC6", "U+BDC7", "U+BDC8", "U+BDC9",
            "U+BDCA", "U+BDCB", "U+BDCC", "U+BDCD", "U+BDCE", "U+BDCF",
            "U+BDD0", "U+BDD1", "U+BDD2", "U+BDD3">>,
          << "U+BDD4", "U+BDD5", "U+BDD6", "U+BDD7", "U+BDD8", "U+BDD9",
            "U+BDDA", "U+BDDB", "U+BDDC", "U+BDDD", "U+BDDE", "U+BDDF",
            "U+BDE0", "U+BDE1", "U+BDE2", "U+BDE3", "U+BDE4", "U+BDE5",
            "U+BDE6", "U+BDE7", "U+BDE8", "U+BDE9", "U+BDEA", "U+BDEB",
            "U+BDEC", "U+BDED", "U+BDEE", "U+BDEF">>,
          << "U+BDF0", "U+BDF1", "U+BDF2", "U+BDF3", "U+BDF4", "U+BDF5",
            "U+BDF6", "U+BDF7", "U+BDF8", "U+BDF9", "U+BDFA", "U+BDFB",
            "U+BDFC", "U+BDFD", "U+BDFE", "U+BDFF", "U+BE00", "U+BE01",
            "U+BE02", "U+BE03", "U+BE04", "U+BE05", "U+BE06", "U+BE07",
            "U+BE08", "U+BE09", "U+BE0A", "U+BE0B">>,
          << "U+BE0C", "U+BE0D", "U+BE0E", "U+BE0F", "U+BE10", "U+BE11",
            "U+BE12", "U+BE13", "U+BE14", "U+BE15", "U+BE16", "U+BE17",
            "U+BE18", "U+BE19", "U+BE1A", "U+BE1B", "U+BE1C", "U+BE1D",
            "U+BE1E", "U+BE1F", "U+BE20", "U+BE21", "U+BE22", "U+BE23",
            "U+BE24", "U+BE25", "U+BE26", "U+BE27">>,
          << "U+BE28", "U+BE29", "U+BE2A", "U+BE2B", "U+BE2C", "U+BE2D",
            "U+BE2E", "U+BE2F", "U+BE30", "U+BE31", "U+BE32", "U+BE33",
            "U+BE34", "U+BE35", "U+BE36", "U+BE37", "U+BE38", "U+BE39",
            "U+BE3A", "U+BE3B", "U+BE3C", "U+BE3D", "U+BE3E", "U+BE3F",
            "U+BE40", "U+BE41", "U+BE42", "U+BE43">>,
          << "U+BE44", "U+BE45", "U+BE46", "U+BE47", "U+BE48", "U+BE49",
            "U+BE4A", "U+BE4B", "U+BE4C", "U+BE4D", "U+BE4E", "U+BE4F",
            "U+BE50", "U+BE51", "U+BE52", "U+BE53", "U+BE54", "U+BE55",
            "U+BE56", "U+BE57", "U+BE58", "U+BE59", "U+BE5A", "U+BE5B",
            "U+BE5C", "U+BE5D", "U+BE5E", "U+BE5F">> >>,
       << << "U+BE60", "U+BE61", "U+BE62", "U+BE63", "U+BE64", "U+BE65",
            "U+BE66", "U+BE67", "U+BE68", "U+BE69", "U+BE6A", "U+BE6B",
            "U+BE6C", "U+BE6D", "U+BE6E", "U+BE6F", "U+BE70", "U+BE71",
            "U+BE72", "U+BE73", "U+BE74", "U+BE75", "U+BE76", "U+BE77",
            "U+BE78", "U+BE79", "U+BE7A", "U+BE7B">>,
          << "U+BE7C", "U+BE7D", "U+BE7E", "U+BE7F", "U+BE80", "U+BE81",
            "U+BE82", "U+BE83", "U+BE84", "U+BE85", "U+BE86", "U+BE87",
            "U+BE88", "U+BE89", "U+BE8A", "U+BE8B", "U+BE8C", "U+BE8D",
            "U+BE8E", "U+BE8F", "U+BE90", "U+BE91", "U+BE92", "U+BE93",
            "U+BE94", "U+BE95", "U+BE96", "U+BE97">>,
          << "U+BE98", "U+BE99", "U+BE9A", "U+BE9B", "U+BE9C", "U+BE9D",
            "U+BE9E", "U+BE9F", "U+BEA0", "U+BEA1", "U+BEA2", "U+BEA3",
            "U+BEA4", "U+BEA5", "U+BEA6", "U+BEA7", "U+BEA8", "U+BEA9",
            "U+BEAA", "U+BEAB", "U+BEAC", "U+BEAD", "U+BEAE", "U+BEAF",
            "U+BEB0", "U+BEB1", "U+BEB2", "U+BEB3">>,
          << "U+BEB4", "U+BEB5", "U+BEB6", "U+BEB7", "U+BEB8", "U+BEB9",
            "U+BEBA", "U+BEBB", "U+BEBC", "U+BEBD", "U+BEBE", "U+BEBF",
            "U+BEC0", "U+BEC1", "U+BEC2", "U+BEC3", "U+BEC4", "U+BEC5",
            "U+BEC6", "U+BEC7", "U+BEC8", "U+BEC9", "U+BECA", "U+BECB",
            "U+BECC", "U+BECD", "U+BECE", "U+BECF">>,
          << "U+BED0", "U+BED1", "U+BED2", "U+BED3", "U+BED4", "U+BED5",
            "U+BED6", "U+BED7", "U+BED8", "U+BED9", "U+BEDA", "U+BEDB",
            "U+BEDC", "U+BEDD", "U+BEDE", "U+BEDF", "U+BEE0", "U+BEE1",
            "U+BEE2", "U+BEE3", "U+BEE4", "U+BEE5", "U+BEE6", "U+BEE7",
            "U+BEE8", "U+BEE9", "U+BEEA", "U+BEEB">>,
          << "U+BEEC", "U+BEED", "U+BEEE", "U+BEEF", "U+BEF0", "U+BEF1",
            "U+BEF2", "U+BEF3", "U+BEF4", "U+BEF5", "U+BEF6", "U+BEF7",
            "U+BEF8", "U+BEF9", "U+BEFA", "U+BEFB", "U+BEFC", "U+BEFD",
            "U+BEFE", "U+BEFF", "U+BF00", "U+BF01", "U+BF02", "U+BF03",
            "U+BF04", "U+BF05", "U+BF06", "U+BF07">>,
          << "U+BF08", "U+BF09", "U+BF0A", "U+BF0B", "U+BF0C", "U+BF0D",
            "U+BF0E", "U+BF0F", "U+BF10", "U+BF11", "U+BF12", "U+BF13",
            "U+BF14", "U+BF15", "U+BF16", "U+BF17", "U+BF18", "U+BF19",
            "U+BF1A", "U+BF1B", "U+BF1C", "U+BF1D", "U+BF1E", "U+BF1F",
            "U+BF20", "U+BF21", "U+BF22", "U+BF23">>,
          << "U+BF24", "U+BF25", "U+BF26", "U+BF27", "U+BF28", "U+BF29",
            "U+BF2A", "U+BF2B", "U+BF2C", "U+BF2D", "U+BF2E", "U+BF2F",
            "U+BF30", "U+BF31", "U+BF32", "U+BF33", "U+BF34", "U+BF35",
            "U+BF36", "U+BF37", "U+BF38", "U+BF39", "U+BF3A", "U+BF3B",
            "U+BF3C", "U+BF3D", "U+BF3E", "U+BF3F">>,
          << "U+BF40", "U+BF41", "U+BF42", "U+BF43", "U+BF44", "U+BF45",
            "U+BF46", "U+BF47", "U+BF48", "U+BF49", "U+BF4A", "U+BF4B",
            "U+BF4C", "U+BF4D", "U+BF4E", "U+BF4F", "U+BF50", "U+BF51",
            "U+BF52", "U+BF53", "U+BF54", "U+BF55", "U+BF56", "U+BF57",
            "U+BF58", "U+BF59", "U+BF5A", "U+BF5B">>,
          << "U+BF5C", "U+BF5D", "U+BF5E", "U+BF5F", "U+BF60", "U+BF61",
            "U+BF62", "U+BF63", "U+BF64", "U+BF65", "U+BF66", "U+BF67",
            "U+BF68", "U+BF69", "U+BF6A", "U+BF6B", "U+BF6C", "U+BF6D",
            "U+BF6E", "U+BF6F", "U+BF70", "U+BF71", "U+BF72", "U+BF73",
            "U+BF74", "U+BF75", "U+BF76", "U+BF77">>,
          << "U+BF78", "U+BF79", "U+BF7A", "U+BF7B", "U+BF7C", "U+BF7D",
            "U+BF7E", "U+BF7F", "U+BF80", "U+BF81", "U+BF82", "U+BF83",
            "U+BF84", "U+BF85", "U+BF86", "U+BF87", "U+BF88", "U+BF89",
            "U+BF8A", "U+BF8B", "U+BF8C", "U+BF8D", "U+BF8E", "U+BF8F",
            "U+BF90", "U+BF91", "U+BF92", "U+BF93">>,
          << "U+BF94", "U+BF95", "U+BF96", "U+BF97", "U+BF98", "U+BF99",
            "U+BF9A", "U+BF9B", "U+BF9C", "U+BF9D", "U+BF9E", "U+BF9F",
            "U+BFA0", "U+BFA1", "U+BFA2", "U+BFA3", "U+BFA4", "U+BFA5",
            "U+BFA6", "U+BFA7", "U+BFA8", "U+BFA9", "U+BFAA", "U+BFAB",
            "U+BFAC", "U+BFAD", "U+BFAE", "U+BFAF">>,
          << "U+BFB0", "U+BFB1", "U+BFB2", "U+BFB3", "U+BFB4", "U+BFB5",
            "U+BFB6", "U+BFB7", "U+BFB8", "U+BFB9", "U+BFBA", "U+BFBB",
            "U+BFBC", "U+BFBD", "U+BFBE", "U+BFBF", "U+BFC0", "U+BFC1",
            "U+BFC2", "U+BFC3", "U+BFC4", "U+BFC5", "U+BFC6", "U+BFC7",
            "U+BFC8", "U+BFC9", "U+BFCA", "U+BFCB">>,
          << "U+BFCC", "U+BFCD", "U+BFCE", "U+BFCF", "U+BFD0", "U+BFD1",
            "U+BFD2", "U+BFD3", "U+BFD4", "U+BFD5", "U+BFD6", "U+BFD7",
            "U+BFD8", "U+BFD9", "U+BFDA", "U+BFDB", "U+BFDC", "U+BFDD",
            "U+BFDE", "U+BFDF", "U+BFE0", "U+BFE1", "U+BFE2", "U+BFE3",
            "U+BFE4", "U+BFE5", "U+BFE6", "U+BFE7">>,
          << "U+BFE8", "U+BFE9", "U+BFEA", "U+BFEB", "U+BFEC", "U+BFED",
            "U+BFEE", "U+BFEF", "U+BFF0", "U+BFF1", "U+BFF2", "U+BFF3",
            "U+BFF4", "U+BFF5", "U+BFF6", "U+BFF7", "U+BFF8", "U+BFF9",
            "U+BFFA", "U+BFFB", "U+BFFC", "U+BFFD", "U+BFFE", "U+BFFF",
            "U+C000", "U+C001", "U+C002", "U+C003">>,
          << "U+C004", "U+C005", "U+C006", "U+C007", "U+C008", "U+C009",
            "U+C00A", "U+C00B", "U+C00C", "U+C00D", "U+C00E", "U+C00F",
            "U+C010", "U+C011", "U+C012", "U+C013", "U+C014", "U+C015",
            "U+C016", "U+C017", "U+C018", "U+C019", "U+C01A", "U+C01B",
            "U+C01C", "U+C01D", "U+C01E", "U+C01F">>,
          << "U+C020", "U+C021", "U+C022", "U+C023", "U+C024", "U+C025",
            "U+C026", "U+C027", "U+C028", "U+C029", "U+C02A", "U+C02B",
            "U+C02C", "U+C02D", "U+C02E", "U+C02F", "U+C030", "U+C031",
            "U+C032", "U+C033", "U+C034", "U+C035", "U+C036", "U+C037",
            "U+C038", "U+C039", "U+C03A", "U+C03B">>,
          << "U+C03C", "U+C03D", "U+C03E", "U+C03F", "U+C040", "U+C041",
            "U+C042", "U+C043", "U+C044", "U+C045", "U+C046", "U+C047",
            "U+C048", "U+C049", "U+C04A", "U+C04B", "U+C04C", "U+C04D",
            "U+C04E", "U+C04F", "U+C050", "U+C051", "U+C052", "U+C053",
            "U+C054", "U+C055", "U+C056", "U+C057">>,
          << "U+C058", "U+C059", "U+C05A", "U+C05B", "U+C05C", "U+C05D",
            "U+C05E", "U+C05F", "U+C060", "U+C061", "U+C062", "U+C063",
            "U+C064", "U+C065", "U+C066", "U+C067", "U+C068", "U+C069",
            "U+C06A", "U+C06B", "U+C06C", "U+C06D", "U+C06E", "U+C06F",
            "U+C070", "U+C071", "U+C072", "U+C073">>,
          << "U+C074", "U+C075", "U+C076", "U+C077", "U+C078", "U+C079",
            "U+C07A", "U+C07B", "U+C07C", "U+C07D", "U+C07E", "U+C07F",
            "U+C080", "U+C081", "U+C082", "U+C083", "U+C084", "U+C085",
            "U+C086", "U+C087", "U+C088", "U+C089", "U+C08A", "U+C08B",
            "U+C08C", "U+C08D", "U+C08E", "U+C08F">>,
          << "U+C090", "U+C091", "U+C092", "U+C093", "U+C094", "U+C095",
            "U+C096", "U+C097", "U+C098", "U+C099", "U+C09A", "U+C09B",
            "U+C09C", "U+C09D", "U+C09E", "U+C09F", "U+C0A0", "U+C0A1",
            "U+C0A2", "U+C0A3", "U+C0A4", "U+C0A5", "U+C0A6", "U+C0A7",
            "U+C0A8", "U+C0A9", "U+C0AA", "U+C0AB">> >>,
       << << "U+C0AC", "U+C0AD", "U+C0AE", "U+C0AF", "U+C0B0", "U+C0B1",
            "U+C0B2", "U+C0B3", "U+C0B4", "U+C0B5", "U+C0B6", "U+C0B7",
            "U+C0B8", "U+C0B9", "U+C0BA", "U+C0BB", "U+C0BC", "U+C0BD",
            "U+C0BE", "U+C0BF", "U+C0C0", "U+C0C1", "U+C0C2", "U+C0C3",
            "U+C0C4", "U+C0C5", "U+C0C6", "U+C0C7">>,
          << "U+C0C8", "U+C0C9", "U+C0CA", "U+C0CB", "U+C0CC", "U+C0CD",
            "U+C0CE", "U+C0CF", "U+C0D0", "U+C0D1", "U+C0D2", "U+C0D3",
            "U+C0D4", "U+C0D5", "U+C0D6", "U+C0D7", "U+C0D8", "U+C0D9",
            "U+C0DA", "U+C0DB", "U+C0DC", "U+C0DD", "U+C0DE", "U+C0DF",
            "U+C0E0", "U+C0E1", "U+C0E2", "U+C0E3">>,
          << "U+C0E4", "U+C0E5", "U+C0E6", "U+C0E7", "U+C0E8", "U+C0E9",
            "U+C0EA", "U+C0EB", "U+C0EC", "U+C0ED", "U+C0EE", "U+C0EF",
            "U+C0F0", "U+C0F1", "U+C0F2", "U+C0F3", "U+C0F4", "U+C0F5",
            "U+C0F6", "U+C0F7", "U+C0F8", "U+C0F9", "U+C0FA", "U+C0FB",
            "U+C0FC", "U+C0FD", "U+C0FE", "U+C0FF">>,
          << "U+C100", "U+C101", "U+C102", "U+C103", "U+C104", "U+C105",
            "U+C106", "U+C107", "U+C108", "U+C109", "U+C10A", "U+C10B",
            "U+C10C", "U+C10D", "U+C10E", "U+C10F", "U+C110", "U+C111",
            "U+C112", "U+C113", "U+C114", "U+C115", "U+C116", "U+C117",
            "U+C118", "U+C119", "U+C11A", "U+C11B">>,
          << "U+C11C", "U+C11D", "U+C11E", "U+C11F", "U+C120", "U+C121",
            "U+C122", "U+C123", "U+C124", "U+C125", "U+C126", "U+C127",
            "U+C128", "U+C129", "U+C12A", "U+C12B", "U+C12C", "U+C12D",
            "U+C12E", "U+C12F", "U+C130", "U+C131", "U+C132", "U+C133",
            "U+C134", "U+C135", "U+C136", "U+C137">>,
          << "U+C138", "U+C139", "U+C13A", "U+C13B", "U+C13C", "U+C13D",
            "U+C13E", "U+C13F", "U+C140", "U+C141", "U+C142", "U+C143",
            "U+C144", "U+C145", "U+C146", "U+C147", "U+C148", "U+C149",
            "U+C14A", "U+C14B", "U+C14C", "U+C14D", "U+C14E", "U+C14F",
            "U+C150", "U+C151", "U+C152", "U+C153">>,
          << "U+C154", "U+C155", "U+C156", "U+C157", "U+C158", "U+C159",
            "U+C15A", "U+C15B", "U+C15C", "U+C15D", "U+C15E", "U+C15F",
            "U+C160", "U+C161", "U+C162", "U+C163", "U+C164", "U+C165",
            "U+C166", "U+C167", "U+C168", "U+C169", "U+C16A", "U+C16B",
            "U+C16C", "U+C16D", "U+C16E", "U+C16F">>,
          << "U+C170", "U+C171", "U+C172", "U+C173", "U+C174", "U+C175",
            "U+C176", "U+C177", "U+C178", "U+C179", "U+C17A", "U+C17B",
            "U+C17C", "U+C17D", "U+C17E", "U+C17F", "U+C180", "U+C181",
            "U+C182", "U+C183", "U+C184", "U+C185", "U+C186", "U+C187",
            "U+C188", "U+C189", "U+C18A", "U+C18B">>,
          << "U+C18C", "U+C18D", "U+C18E", "U+C18F", "U+C190", "U+C191",
            "U+C192", "U+C193", "U+C194", "U+C195", "U+C196", "U+C197",
            "U+C198", "U+C199", "U+C19A", "U+C19B", "U+C19C", "U+C19D",
            "U+C19E", "U+C19F", "U+C1A0", "U+C1A1", "U+C1A2", "U+C1A3",
            "U+C1A4", "U+C1A5", "U+C1A6", "U+C1A7">>,
          << "U+C1A8", "U+C1A9", "U+C1AA", "U+C1AB", "U+C1AC", "U+C1AD",
            "U+C1AE", "U+C1AF", "U+C1B0", "U+C1B1", "U+C1B2", "U+C1B3",
            "U+C1B4", "U+C1B5", "U+C1B6", "U+C1B7", "U+C1B8", "U+C1B9",
            "U+C1BA", "U+C1BB", "U+C1BC", "U+C1BD", "U+C1BE", "U+C1BF",
            "U+C1C0", "U+C1C1", "U+C1C2", "U+C1C3">>,
          << "U+C1C4", "U+C1C5", "U+C1C6", "U+C1C7", "U+C1C8", "U+C1C9",
            "U+C1CA", "U+C1CB", "U+C1CC", "U+C1CD", "U+C1CE", "U+C1CF",
            "U+C1D0", "U+C1D1", "U+C1D2", "U+C1D3", "U+C1D4", "U+C1D5",
            "U+C1D6", "U+C1D7", "U+C1D8", "U+C1D9", "U+C1DA", "U+C1DB",
            "U+C1DC", "U+C1DD", "U+C1DE", "U+C1DF">>,
          << "U+C1E0", "U+C1E1", "U+C1E2", "U+C1E3", "U+C1E4", "U+C1E5",
            "U+C1E6", "U+C1E7", "U+C1E8", "U+C1E9", "U+C1EA", "U+C1EB",
            "U+C1EC", "U+C1ED", "U+C1EE", "U+C1EF", "U+C1F0", "U+C1F1",
            "U+C1F2", "U+C1F3", "U+C1F4", "U+C1F5", "U+C1F6", "U+C1F7",
            "U+C1F8", "U+C1F9", "U+C1FA", "U+C1FB">>,
          << "U+C1FC", "U+C1FD", "U+C1FE", "U+C1FF", "U+C200", "U+C201",
            "U+C202", "U+C203", "U+C204", "U+C205", "U+C206", "U+C207",
            "U+C208", "U+C209", "U+C20A", "U+C20B", "U+C20C", "U+C20D",
            "U+C20E", "U+C20F", "U+C210", "U+C211", "U+C212", "U+C213",
            "U+C214", "U+C215", "U+C216", "U+C217">>,
          << "U+C218", "U+C219", "U+C21A", "U+C21B", "U+C21C", "U+C21D",
            "U+C21E", "U+C21F", "U+C220", "U+C221", "U+C222", "U+C223",
            "U+C224", "U+C225", "U+C226", "U+C227", "U+C228", "U+C229",
            "U+C22A", "U+C22B", "U+C22C", "U+C22D", "U+C22E", "U+C22F",
            "U+C230", "U+C231", "U+C232", "U+C233">>,
          << "U+C234", "U+C235", "U+C236", "U+C237", "U+C238", "U+C239",
            "U+C23A", "U+C23B", "U+C23C", "U+C23D", "U+C23E", "U+C23F",
            "U+C240", "U+C241", "U+C242", "U+C243", "U+C244", "U+C245",
            "U+C246", "U+C247", "U+C248", "U+C249", "U+C24A", "U+C24B",
            "U+C24C", "U+C24D", "U+C24E", "U+C24F">>,
          << "U+C250", "U+C251", "U+C252", "U+C253", "U+C254", "U+C255",
            "U+C256", "U+C257", "U+C258", "U+C259", "U+C25A", "U+C25B",
            "U+C25C", "U+C25D", "U+C25E", "U+C25F", "U+C260", "U+C261",
            "U+C262", "U+C263", "U+C264", "U+C265", "U+C266", "U+C267",
            "U+C268", "U+C269", "U+C26A", "U+C26B">>,
          << "U+C26C", "U+C26D", "U+C26E", "U+C26F", "U+C270", "U+C271",
            "U+C272", "U+C273", "U+C274", "U+C275", "U+C276", "U+C277",
            "U+C278", "U+C279", "U+C27A", "U+C27B", "U+C27C", "U+C27D",
            "U+C27E", "U+C27F", "U+C280", "U+C281", "U+C282", "U+C283",
            "U+C284", "U+C285", "U+C286", "U+C287">>,
          << "U+C288", "U+C289", "U+C28A", "U+C28B", "U+C28C", "U+C28D",
            "U+C28E", "U+C28F", "U+C290", "U+C291", "U+C292", "U+C293",
            "U+C294", "U+C295", "U+C296", "U+C297", "U+C298", "U+C299",
            "U+C29A", "U+C29B", "U+C29C", "U+C29D", "U+C29E", "U+C29F",
            "U+C2A0", "U+C2A1", "U+C2A2", "U+C2A3">>,
          << "U+C2A4", "U+C2A5", "U+C2A6", "U+C2A7", "U+C2A8", "U+C2A9",
            "U+C2AA", "U+C2AB", "U+C2AC", "U+C2AD", "U+C2AE", "U+C2AF",
            "U+C2B0", "U+C2B1", "U+C2B2", "U+C2B3", "U+C2B4", "U+C2B5",
            "U+C2B6", "U+C2B7", "U+C2B8", "U+C2B9", "U+C2BA", "U+C2BB",
            "U+C2BC", "U+C2BD", "U+C2BE", "U+C2BF">>,
          << "U+C2C0", "U+C2C1", "U+C2C2", "U+C2C3", "U+C2C4", "U+C2C5",
            "U+C2C6", "U+C2C7", "U+C2C8", "U+C2C9", "U+C2CA", "U+C2CB",
            "U+C2CC", "U+C2CD", "U+C2CE", "U+C2CF", "U+C2D0", "U+C2D1",
            "U+C2D2", "U+C2D3", "U+C2D4", "U+C2D5", "U+C2D6", "U+C2D7",
            "U+C2D8", "U+C2D9", "U+C2DA", "U+C2DB">>,
          << "U+C2DC", "U+C2DD", "U+C2DE", "U+C2DF", "U+C2E0", "U+C2E1",
            "U+C2E2", "U+C2E3", "U+C2E4", "U+C2E5", "U+C2E6", "U+C2E7",
            "U+C2E8", "U+C2E9", "U+C2EA", "U+C2EB", "U+C2EC", "U+C2ED",
            "U+C2EE", "U+C2EF", "U+C2F0", "U+C2F1", "U+C2F2", "U+C2F3",
            "U+C2F4", "U+C2F5", "U+C2F6", "U+C2F7">> >>,
       << << "U+C2F8", "U+C2F9", "U+C2FA", "U+C2FB", "U+C2FC", "U+C2FD",
            "U+C2FE", "U+C2FF", "U+C300", "U+C301", "U+C302", "U+C303",
            "U+C304", "U+C305", "U+C306", "U+C307", "U+C308", "U+C309",
            "U+C30A", "U+C30B", "U+C30C", "U+C30D", "U+C30E", "U+C30F",
            "U+C310", "U+C311", "U+C312", "U+C313">>,
          << "U+C314", "U+C315", "U+C316", "U+C317", "U+C318", "U+C319",
            "U+C31A", "U+C31B", "U+C31C", "U+C31D", "U+C31E", "U+C31F",
            "U+C320", "U+C321", "U+C322", "U+C323", "U+C324", "U+C325",
            "U+C326", "U+C327", "U+C328", "U+C329", "U+C32A", "U+C32B",
            "U+C32C", "U+C32D", "U+C32E", "U+C32F">>,
          << "U+C330", "U+C331", "U+C332", "U+C333", "U+C334", "U+C335",
            "U+C336", "U+C337", "U+C338", "U+C339", "U+C33A", "U+C33B",
            "U+C33C", "U+C33D", "U+C33E", "U+C33F", "U+C340", "U+C341",
            "U+C342", "U+C343", "U+C344", "U+C345", "U+C346", "U+C347",
            "U+C348", "U+C349", "U+C34A", "U+C34B">>,
          << "U+C34C", "U+C34D", "U+C34E", "U+C34F", "U+C350", "U+C351",
            "U+C352", "U+C353", "U+C354", "U+C355", "U+C356", "U+C357",
            "U+C358", "U+C359", "U+C35A", "U+C35B", "U+C35C", "U+C35D",
            "U+C35E", "U+C35F", "U+C360", "U+C361", "U+C362", "U+C363",
            "U+C364", "U+C365", "U+C366", "U+C367">>,
          << "U+C368", "U+C369", "U+C36A", "U+C36B", "U+C36C", "U+C36D",
            "U+C36E", "U+C36F", "U+C370", "U+C371", "U+C372", "U+C373",
            "U+C374", "U+C375", "U+C376", "U+C377", "U+C378", "U+C379",
            "U+C37A", "U+C37B", "U+C37C", "U+C37D", "U+C37E", "U+C37F",
            "U+C380", "U+C381", "U+C382", "U+C383">>,
          << "U+C384", "U+C385", "U+C386", "U+C387", "U+C388", "U+C389",
            "U+C38A", "U+C38B", "U+C38C", "U+C38D", "U+C38E", "U+C38F",
            "U+C390", "U+C391", "U+C392", "U+C393", "U+C394", "U+C395",
            "U+C396", "U+C397", "U+C398", "U+C399", "U+C39A", "U+C39B",
            "U+C39C", "U+C39D", "U+C39E", "U+C39F">>,
          << "U+C3A0", "U+C3A1", "U+C3A2", "U+C3A3", "U+C3A4", "U+C3A5",
            "U+C3A6", "U+C3A7", "U+C3A8", "U+C3A9", "U+C3AA", "U+C3AB",
            "U+C3AC", "U+C3AD", "U+C3AE", "U+C3AF", "U+C3B0", "U+C3B1",
            "U+C3B2", "U+C3B3", "U+C3B4", "U+C3B5", "U+C3B6", "U+C3B7",
            "U+C3B8", "U+C3B9", "U+C3BA", "U+C3BB">>,
          << "U+C3BC", "U+C3BD", "U+C3BE", "U+C3BF", "U+C3C0", "U+C3C1",
            "U+C3C2", "U+C3C3", "U+C3C4", "U+C3C5", "U+C3C6", "U+C3C7",
            "U+C3C8", "U+C3C9", "U+C3CA", "U+C3CB", "U+C3CC", "U+C3CD",
            "U+C3CE", "U+C3CF", "U+C3D0", "U+C3D1", "U+C3D2", "U+C3D3",
            "U+C3D4", "U+C3D5", "U+C3D6", "U+C3D7">>,
          << "U+C3D8", "U+C3D9", "U+C3DA", "U+C3DB", "U+C3DC", "U+C3DD",
            "U+C3DE", "U+C3DF", "U+C3E0", "U+C3E1", "U+C3E2", "U+C3E3",
            "U+C3E4", "U+C3E5", "U+C3E6", "U+C3E7", "U+C3E8", "U+C3E9",
            "U+C3EA", "U+C3EB", "U+C3EC", "U+C3ED", "U+C3EE", "U+C3EF",
            "U+C3F0", "U+C3F1", "U+C3F2", "U+C3F3">>,
          << "U+C3F4", "U+C3F5", "U+C3F6", "U+C3F7", "U+C3F8", "U+C3F9",
            "U+C3FA", "U+C3FB", "U+C3FC", "U+C3FD", "U+C3FE", "U+C3FF",
            "U+C400", "U+C401", "U+C402", "U+C403", "U+C404", "U+C405",
            "U+C406", "U+C407", "U+C408", "U+C409", "U+C40A", "U+C40B",
            "U+C40C", "U+C40D", "U+C40E", "U+C40F">>,
          << "U+C410", "U+C411", "U+C412", "U+C413", "U+C414", "U+C415",
            "U+C416", "U+C417", "U+C418", "U+C419", "U+C41A", "U+C41B",
            "U+C41C", "U+C41D", "U+C41E", "U+C41F", "U+C420", "U+C421",
            "U+C422", "U+C423", "U+C424", "U+C425", "U+C426", "U+C427",
            "U+C428", "U+C429", "U+C42A", "U+C42B">>,
          << "U+C42C", "U+C42D", "U+C42E", "U+C42F", "U+C430", "U+C431",
            "U+C432", "U+C433", "U+C434", "U+C435", "U+C436", "U+C437",
            "U+C438", "U+C439", "U+C43A", "U+C43B", "U+C43C", "U+C43D",
            "U+C43E", "U+C43F", "U+C440", "U+C441", "U+C442", "U+C443",
            "U+C444", "U+C445", "U+C446", "U+C447">>,
          << "U+C448", "U+C449", "U+C44A", "U+C44B", "U+C44C", "U+C44D",
            "U+C44E", "U+C44F", "U+C450", "U+C451", "U+C452", "U+C453",
            "U+C454", "U+C455", "U+C456", "U+C457", "U+C458", "U+C459",
            "U+C45A", "U+C45B", "U+C45C", "U+C45D", "U+C45E", "U+C45F",
            "U+C460", "U+C461", "U+C462", "U+C463">>,
          << "U+C464", "U+C465", "U+C466", "U+C467", "U+C468", "U+C469",
            "U+C46A", "U+C46B", "U+C46C", "U+C46D", "U+C46E", "U+C46F",
            "U+C470", "U+C471", "U+C472", "U+C473", "U+C474", "U+C475",
            "U+C476", "U+C477", "U+C478", "U+C479", "U+C47A", "U+C47B",
            "U+C47C", "U+C47D", "U+C47E", "U+C47F">>,
          << "U+C480", "U+C481", "U+C482", "U+C483", "U+C484", "U+C485",
            "U+C486", "U+C487", "U+C488", "U+C489", "U+C48A", "U+C48B",
            "U+C48C", "U+C48D", "U+C48E", "U+C48F", "U+C490", "U+C491",
            "U+C492", "U+C493", "U+C494", "U+C495", "U+C496", "U+C497",
            "U+C498", "U+C499", "U+C49A", "U+C49B">>,
          << "U+C49C", "U+C49D", "U+C49E", "U+C49F", "U+C4A0", "U+C4A1",
            "U+C4A2", "U+C4A3", "U+C4A4", "U+C4A5", "U+C4A6", "U+C4A7",
            "U+C4A8", "U+C4A9", "U+C4AA", "U+C4AB", "U+C4AC", "U+C4AD",
            "U+C4AE", "U+C4AF", "U+C4B0", "U+C4B1", "U+C4B2", "U+C4B3",
            "U+C4B4", "U+C4B5", "U+C4B6", "U+C4B7">>,
          << "U+C4B8", "U+C4B9", "U+C4BA", "U+C4BB", "U+C4BC", "U+C4BD",
            "U+C4BE", "U+C4BF", "U+C4C0", "U+C4C1", "U+C4C2", "U+C4C3",
            "U+C4C4", "U+C4C5", "U+C4C6", "U+C4C7", "U+C4C8", "U+C4C9",
            "U+C4CA", "U+C4CB", "U+C4CC", "U+C4CD", "U+C4CE", "U+C4CF",
            "U+C4D0", "U+C4D1", "U+C4D2", "U+C4D3">>,
          << "U+C4D4", "U+C4D5", "U+C4D6", "U+C4D7", "U+C4D8", "U+C4D9",
            "U+C4DA", "U+C4DB", "U+C4DC", "U+C4DD", "U+C4DE", "U+C4DF",
            "U+C4E0", "U+C4E1", "U+C4E2", "U+C4E3", "U+C4E4", "U+C4E5",
            "U+C4E6", "U+C4E7", "U+C4E8", "U+C4E9", "U+C4EA", "U+C4EB",
            "U+C4EC", "U+C4ED", "U+C4EE", "U+C4EF">>,
          << "U+C4F0", "U+C4F1", "U+C4F2", "U+C4F3", "U+C4F4", "U+C4F5",
            "U+C4F6", "U+C4F7", "U+C4F8", "U+C4F9", "U+C4FA", "U+C4FB",
            "U+C4FC", "U+C4FD", "U+C4FE", "U+C4FF", "U+C500", "U+C501",
            "U+C502", "U+C503", "U+C504", "U+C505", "U+C506", "U+C507",
            "U+C508", "U+C509", "U+C50A", "U+C50B">>,
          << "U+C50C", "U+C50D", "U+C50E", "U+C50F", "U+C510", "U+C511",
            "U+C512", "U+C513", "U+C514", "U+C515", "U+C516", "U+C517",
            "U+C518", "U+C519", "U+C51A", "U+C51B", "U+C51C", "U+C51D",
            "U+C51E", "U+C51F", "U+C520", "U+C521", "U+C522", "U+C523",
            "U+C524", "U+C525", "U+C526", "U+C527">>,
          << "U+C528", "U+C529", "U+C52A", "U+C52B", "U+C52C", "U+C52D",
            "U+C52E", "U+C52F", "U+C530", "U+C531", "U+C532", "U+C533",
            "U+C534", "U+C535", "U+C536", "U+C537", "U+C538", "U+C539",
            "U+C53A", "U+C53B", "U+C53C", "U+C53D", "U+C53E", "U+C53F",
            "U+C540", "U+C541", "U+C542", "U+C543">> >>,
       << << "U+C544", "U+C545", "U+C546", "U+C547", "U+C548", "U+C549",
            "U+C54A", "U+C54B", "U+C54C", "U+C54D", "U+C54E", "U+C54F",
            "U+C550", "U+C551", "U+C552", "U+C553", "U+C554", "U+C555",
            "U+C556", "U+C557", "U+C558", "U+C559", "U+C55A", "U+C55B",
            "U+C55C", "U+C55D", "U+C55E", "U+C55F">>,
          << "U+C560", "U+C561", "U+C562", "U+C563", "U+C564", "U+C565",
            "U+C566", "U+C567", "U+C568", "U+C569", "U+C56A", "U+C56B",
            "U+C56C", "U+C56D", "U+C56E", "U+C56F", "U+C570", "U+C571",
            "U+C572", "U+C573", "U+C574", "U+C575", "U+C576", "U+C577",
            "U+C578", "U+C579", "U+C57A", "U+C57B">>,
          << "U+C57C", "U+C57D", "U+C57E", "U+C57F", "U+C580", "U+C581",
            "U+C582", "U+C583", "U+C584", "U+C585", "U+C586", "U+C587",
            "U+C588", "U+C589", "U+C58A", "U+C58B", "U+C58C", "U+C58D",
            "U+C58E", "U+C58F", "U+C590", "U+C591", "U+C592", "U+C593",
            "U+C594", "U+C595", "U+C596", "U+C597">>,
          << "U+C598", "U+C599", "U+C59A", "U+C59B", "U+C59C", "U+C59D",
            "U+C59E", "U+C59F", "U+C5A0", "U+C5A1", "U+C5A2", "U+C5A3",
            "U+C5A4", "U+C5A5", "U+C5A6", "U+C5A7", "U+C5A8", "U+C5A9",
            "U+C5AA", "U+C5AB", "U+C5AC", "U+C5AD", "U+C5AE", "U+C5AF",
            "U+C5B0", "U+C5B1", "U+C5B2", "U+C5B3">>,
          << "U+C5B4", "U+C5B5", "U+C5B6", "U+C5B7", "U+C5B8", "U+C5B9",
            "U+C5BA", "U+C5BB", "U+C5BC", "U+C5BD", "U+C5BE", "U+C5BF",
            "U+C5C0", "U+C5C1", "U+C5C2", "U+C5C3", "U+C5C4", "U+C5C5",
            "U+C5C6", "U+C5C7", "U+C5C8", "U+C5C9", "U+C5CA", "U+C5CB",
            "U+C5CC", "U+C5CD", "U+C5CE", "U+C5CF">>,
          << "U+C5D0", "U+C5D1", "U+C5D2", "U+C5D3", "U+C5D4", "U+C5D5",
            "U+C5D6", "U+C5D7", "U+C5D8", "U+C5D9", "U+C5DA", "U+C5DB",
            "U+C5DC", "U+C5DD", "U+C5DE", "U+C5DF", "U+C5E0", "U+C5E1",
            "U+C5E2", "U+C5E3", "U+C5E4", "U+C5E5", "U+C5E6", "U+C5E7",
            "U+C5E8", "U+C5E9", "U+C5EA", "U+C5EB">>,
          << "U+C5EC", "U+C5ED", "U+C5EE", "U+C5EF", "U+C5F0", "U+C5F1",
            "U+C5F2", "U+C5F3", "U+C5F4", "U+C5F5", "U+C5F6", "U+C5F7",
            "U+C5F8", "U+C5F9", "U+C5FA", "U+C5FB", "U+C5FC", "U+C5FD",
            "U+C5FE", "U+C5FF", "U+C600", "U+C601", "U+C602", "U+C603",
            "U+C604", "U+C605", "U+C606", "U+C607">>,
          << "U+C608", "U+C609", "U+C60A", "U+C60B", "U+C60C", "U+C60D",
            "U+C60E", "U+C60F", "U+C610", "U+C611", "U+C612", "U+C613",
            "U+C614", "U+C615", "U+C616", "U+C617", "U+C618", "U+C619",
            "U+C61A", "U+C61B", "U+C61C", "U+C61D", "U+C61E", "U+C61F",
            "U+C620", "U+C621", "U+C622", "U+C623">>,
          << "U+C624", "U+C625", "U+C626", "U+C627", "U+C628", "U+C629",
            "U+C62A", "U+C62B", "U+C62C", "U+C62D", "U+C62E", "U+C62F",
            "U+C630", "U+C631", "U+C632", "U+C633", "U+C634", "U+C635",
            "U+C636", "U+C637", "U+C638", "U+C639", "U+C63A", "U+C63B",
            "U+C63C", "U+C63D", "U+C63E", "U+C63F">>,
          << "U+C640", "U+C641", "U+C642", "U+C643", "U+C644", "U+C645",
            "U+C646", "U+C647", "U+C648", "U+C649", "U+C64A", "U+C64B",
            "U+C64C", "U+C64D", "U+C64E", "U+C64F", "U+C650", "U+C651",
            "U+C652", "U+C653", "U+C654", "U+C655", "U+C656", "U+C657",
            "U+C658", "U+C659", "U+C65A", "U+C65B">>,
          << "U+C65C", "U+C65D", "U+C65E", "U+C65F", "U+C660", "U+C661",
            "U+C662", "U+C663", "U+C664", "U+C665", "U+C666", "U+C667",
            "U+C668", "U+C669", "U+C66A", "U+C66B", "U+C66C", "U+C66D",
            "U+C66E", "U+C66F", "U+C670", "U+C671", "U+C672", "U+C673",
            "U+C674", "U+C675", "U+C676", "U+C677">>,
          << "U+C678", "U+C679", "U+C67A", "U+C67B", "U+C67C", "U+C67D",
            "U+C67E", "U+C67F", "U+C680", "U+C681", "U+C682", "U+C683",
            "U+C684", "U+C685", "U+C686", "U+C687", "U+C688", "U+C689",
            "U+C68A", "U+C68B", "U+C68C", "U+C68D", "U+C68E", "U+C68F",
            "U+C690", "U+C691", "U+C692", "U+C693">>,
          << "U+C694", "U+C695", "U+C696", "U+C697", "U+C698", "U+C699",
            "U+C69A", "U+C69B", "U+C69C", "U+C69D", "U+C69E", "U+C69F",
            "U+C6A0", "U+C6A1", "U+C6A2", "U+C6A3", "U+C6A4", "U+C6A5",
            "U+C6A6", "U+C6A7", "U+C6A8", "U+C6A9", "U+C6AA", "U+C6AB",
            "U+C6AC", "U+C6AD", "U+C6AE", "U+C6AF">>,
          << "U+C6B0", "U+C6B1", "U+C6B2", "U+C6B3", "U+C6B4", "U+C6B5",
            "U+C6B6", "U+C6B7", "U+C6B8", "U+C6B9", "U+C6BA", "U+C6BB",
            "U+C6BC", "U+C6BD", "U+C6BE", "U+C6BF", "U+C6C0", "U+C6C1",
            "U+C6C2", "U+C6C3", "U+C6C4", "U+C6C5", "U+C6C6", "U+C6C7",
            "U+C6C8", "U+C6C9", "U+C6CA", "U+C6CB">>,
          << "U+C6CC", "U+C6CD", "U+C6CE", "U+C6CF", "U+C6D0", "U+C6D1",
            "U+C6D2", "U+C6D3", "U+C6D4", "U+C6D5", "U+C6D6", "U+C6D7",
            "U+C6D8", "U+C6D9", "U+C6DA", "U+C6DB", "U+C6DC", "U+C6DD",
            "U+C6DE", "U+C6DF", "U+C6E0", "U+C6E1", "U+C6E2", "U+C6E3",
            "U+C6E4", "U+C6E5", "U+C6E6", "U+C6E7">>,
          << "U+C6E8", "U+C6E9", "U+C6EA", "U+C6EB", "U+C6EC", "U+C6ED",
            "U+C6EE", "U+C6EF", "U+C6F0", "U+C6F1", "U+C6F2", "U+C6F3",
            "U+C6F4", "U+C6F5", "U+C6F6", "U+C6F7", "U+C6F8", "U+C6F9",
            "U+C6FA", "U+C6FB", "U+C6FC", "U+C6FD", "U+C6FE", "U+C6FF",
            "U+C700", "U+C701", "U+C702", "U+C703">>,
          << "U+C704", "U+C705", "U+C706", "U+C707", "U+C708", "U+C709",
            "U+C70A", "U+C70B", "U+C70C", "U+C70D", "U+C70E", "U+C70F",
            "U+C710", "U+C711", "U+C712", "U+C713", "U+C714", "U+C715",
            "U+C716", "U+C717", "U+C718", "U+C719", "U+C71A", "U+C71B",
            "U+C71C", "U+C71D", "U+C71E", "U+C71F">>,
          << "U+C720", "U+C721", "U+C722", "U+C723", "U+C724", "U+C725",
            "U+C726", "U+C727", "U+C728", "U+C729", "U+C72A", "U+C72B",
            "U+C72C", "U+C72D", "U+C72E", "U+C72F", "U+C730", "U+C731",
            "U+C732", "U+C733", "U+C734", "U+C735", "U+C736", "U+C737",
            "U+C738", "U+C739", "U+C73A", "U+C73B">>,
          << "U+C73C", "U+C73D", "U+C73E", "U+C73F", "U+C740", "U+C741",
            "U+C742", "U+C743", "U+C744", "U+C745", "U+C746", "U+C747",
            "U+C748", "U+C749", "U+C74A", "U+C74B", "U+C74C", "U+C74D",
            "U+C74E", "U+C74F", "U+C750", "U+C751", "U+C752", "U+C753",
            "U+C754", "U+C755", "U+C756", "U+C757">>,
          << "U+C758", "U+C759", "U+C75A", "U+C75B", "U+C75C", "U+C75D",
            "U+C75E", "U+C75F", "U+C760", "U+C761", "U+C762", "U+C763",
            "U+C764", "U+C765", "U+C766", "U+C767", "U+C768", "U+C769",
            "U+C76A", "U+C76B", "U+C76C", "U+C76D", "U+C76E", "U+C76F",
            "U+C770", "U+C771", "U+C772", "U+C773">>,
          << "U+C774", "U+C775", "U+C776", "U+C777", "U+C778", "U+C779",
            "U+C77A", "U+C77B", "U+C77C", "U+C77D", "U+C77E", "U+C77F",
            "U+C780", "U+C781", "U+C782", "U+C783", "U+C784", "U+C785",
            "U+C786", "U+C787", "U+C788", "U+C789", "U+C78A", "U+C78B",
            "U+C78C", "U+C78D", "U+C78E", "U+C78F">> >>,
       << << "U+C790", "U+C791", "U+C792", "U+C793", "U+C794", "U+C795",
            "U+C796", "U+C797", "U+C798", "U+C799", "U+C79A", "U+C79B",
            "U+C79C", "U+C79D", "U+C79E", "U+C79F", "U+C7A0", "U+C7A1",
            "U+C7A2", "U+C7A3", "U+C7A4", "U+C7A5", "U+C7A6", "U+C7A7",
            "U+C7A8", "U+C7A9", "U+C7AA", "U+C7AB">>,
          << "U+C7AC", "U+C7AD", "U+C7AE", "U+C7AF", "U+C7B0", "U+C7B1",
            "U+C7B2", "U+C7B3", "U+C7B4", "U+C7B5", "U+C7B6", "U+C7B7",
            "U+C7B8", "U+C7B9", "U+C7BA", "U+C7BB", "U+C7BC", "U+C7BD",
            "U+C7BE", "U+C7BF", "U+C7C0", "U+C7C1", "U+C7C2", "U+C7C3",
            "U+C7C4", "U+C7C5", "U+C7C6", "U+C7C7">>,
          << "U+C7C8", "U+C7C9", "U+C7CA", "U+C7CB", "U+C7CC", "U+C7CD",
            "U+C7CE", "U+C7CF", "U+C7D0", "U+C7D1", "U+C7D2", "U+C7D3",
            "U+C7D4", "U+C7D5", "U+C7D6", "U+C7D7", "U+C7D8", "U+C7D9",
            "U+C7DA", "U+C7DB", "U+C7DC", "U+C7DD", "U+C7DE", "U+C7DF",
            "U+C7E0", "U+C7E1", "U+C7E2", "U+C7E3">>,
          << "U+C7E4", "U+C7E5", "U+C7E6", "U+C7E7", "U+C7E8", "U+C7E9",
            "U+C7EA", "U+C7EB", "U+C7EC", "U+C7ED", "U+C7EE", "U+C7EF",
            "U+C7F0", "U+C7F1", "U+C7F2", "U+C7F3", "U+C7F4", "U+C7F5",
            "U+C7F6", "U+C7F7", "U+C7F8", "U+C7F9", "U+C7FA", "U+C7FB",
            "U+C7FC", "U+C7FD", "U+C7FE", "U+C7FF">>,
          << "U+C800", "U+C801", "U+C802", "U+C803", "U+C804", "U+C805",
            "U+C806", "U+C807", "U+C808", "U+C809", "U+C80A", "U+C80B",
            "U+C80C", "U+C80D", "U+C80E", "U+C80F", "U+C810", "U+C811",
            "U+C812", "U+C813", "U+C814", "U+C815", "U+C816", "U+C817",
            "U+C818", "U+C819", "U+C81A", "U+C81B">>,
          << "U+C81C", "U+C81D", "U+C81E", "U+C81F", "U+C820", "U+C821",
            "U+C822", "U+C823", "U+C824", "U+C825", "U+C826", "U+C827",
            "U+C828", "U+C829", "U+C82A", "U+C82B", "U+C82C", "U+C82D",
            "U+C82E", "U+C82F", "U+C830", "U+C831", "U+C832", "U+C833",
            "U+C834", "U+C835", "U+C836", "U+C837">>,
          << "U+C838", "U+C839", "U+C83A", "U+C83B", "U+C83C", "U+C83D",
            "U+C83E", "U+C83F", "U+C840", "U+C841", "U+C842", "U+C843",
            "U+C844", "U+C845", "U+C846", "U+C847", "U+C848", "U+C849",
            "U+C84A", "U+C84B", "U+C84C", "U+C84D", "U+C84E", "U+C84F",
            "U+C850", "U+C851", "U+C852", "U+C853">>,
          << "U+C854", "U+C855", "U+C856", "U+C857", "U+C858", "U+C859",
            "U+C85A", "U+C85B", "U+C85C", "U+C85D", "U+C85E", "U+C85F",
            "U+C860", "U+C861", "U+C862", "U+C863", "U+C864", "U+C865",
            "U+C866", "U+C867", "U+C868", "U+C869", "U+C86A", "U+C86B",
            "U+C86C", "U+C86D", "U+C86E", "U+C86F">>,
          << "U+C870", "U+C871", "U+C872", "U+C873", "U+C874", "U+C875",
            "U+C876", "U+C877", "U+C878", "U+C879", "U+C87A", "U+C87B",
            "U+C87C", "U+C87D", "U+C87E", "U+C87F", "U+C880", "U+C881",
            "U+C882", "U+C883", "U+C884", "U+C885", "U+C886", "U+C887",
            "U+C888", "U+C889", "U+C88A", "U+C88B">>,
          << "U+C88C", "U+C88D", "U+C88E", "U+C88F", "U+C890", "U+C891",
            "U+C892", "U+C893", "U+C894", "U+C895", "U+C896", "U+C897",
            "U+C898", "U+C899", "U+C89A", "U+C89B", "U+C89C", "U+C89D",
            "U+C89E", "U+C89F", "U+C8A0", "U+C8A1", "U+C8A2", "U+C8A3",
            "U+C8A4", "U+C8A5", "U+C8A6", "U+C8A7">>,
          << "U+C8A8", "U+C8A9", "U+C8AA", "U+C8AB", "U+C8AC", "U+C8AD",
            "U+C8AE", "U+C8AF", "U+C8B0", "U+C8B1", "U+C8B2", "U+C8B3",
            "U+C8B4", "U+C8B5", "U+C8B6", "U+C8B7", "U+C8B8", "U+C8B9",
            "U+C8BA", "U+C8BB", "U+C8BC", "U+C8BD", "U+C8BE", "U+C8BF",
            "U+C8C0", "U+C8C1", "U+C8C2", "U+C8C3">>,
          << "U+C8C4", "U+C8C5", "U+C8C6", "U+C8C7", "U+C8C8", "U+C8C9",
            "U+C8CA", "U+C8CB", "U+C8CC", "U+C8CD", "U+C8CE", "U+C8CF",
            "U+C8D0", "U+C8D1", "U+C8D2", "U+C8D3", "U+C8D4", "U+C8D5",
            "U+C8D6", "U+C8D7", "U+C8D8", "U+C8D9", "U+C8DA", "U+C8DB",
            "U+C8DC", "U+C8DD", "U+C8DE", "U+C8DF">>,
          << "U+C8E0", "U+C8E1", "U+C8E2", "U+C8E3", "U+C8E4", "U+C8E5",
            "U+C8E6", "U+C8E7", "U+C8E8", "U+C8E9", "U+C8EA", "U+C8EB",
            "U+C8EC", "U+C8ED", "U+C8EE", "U+C8EF", "U+C8F0", "U+C8F1",
            "U+C8F2", "U+C8F3", "U+C8F4", "U+C8F5", "U+C8F6", "U+C8F7",
            "U+C8F8", "U+C8F9", "U+C8FA", "U+C8FB">>,
          << "U+C8FC", "U+C8FD", "U+C8FE", "U+C8FF", "U+C900", "U+C901",
            "U+C902", "U+C903", "U+C904", "U+C905", "U+C906", "U+C907",
            "U+C908", "U+C909", "U+C90A", "U+C90B", "U+C90C", "U+C90D",
            "U+C90E", "U+C90F", "U+C910", "U+C911", "U+C912", "U+C913",
            "U+C914", "U+C915", "U+C916", "U+C917">>,
          << "U+C918", "U+C919", "U+C91A", "U+C91B", "U+C91C", "U+C91D",
            "U+C91E", "U+C91F", "U+C920", "U+C921", "U+C922", "U+C923",
            "U+C924", "U+C925", "U+C926", "U+C927", "U+C928", "U+C929",
            "U+C92A", "U+C92B", "U+C92C", "U+C92D", "U+C92E", "U+C92F",
            "U+C930", "U+C931", "U+C932", "U+C933">>,
          << "U+C934", "U+C935", "U+C936", "U+C937", "U+C938", "U+C939",
            "U+C93A", "U+C93B", "U+C93C", "U+C93D", "U+C93E", "U+C93F",
            "U+C940", "U+C941", "U+C942", "U+C943", "U+C944", "U+C945",
            "U+C946", "U+C947", "U+C948", "U+C949", "U+C94A", "U+C94B",
            "U+C94C", "U+C94D", "U+C94E", "U+C94F">>,
          << "U+C950", "U+C951", "U+C952", "U+C953", "U+C954", "U+C955",
            "U+C956", "U+C957", "U+C958", "U+C959", "U+C95A", "U+C95B",
            "U+C95C", "U+C95D", "U+C95E", "U+C95F", "U+C960", "U+C961",
            "U+C962", "U+C963", "U+C964", "U+C965", "U+C966", "U+C967",
            "U+C968", "U+C969", "U+C96A", "U+C96B">>,
          << "U+C96C", "U+C96D", "U+C96E", "U+C96F", "U+C970", "U+C971",
            "U+C972", "U+C973", "U+C974", "U+C975", "U+C976", "U+C977",
            "U+C978", "U+C979", "U+C97A", "U+C97B", "U+C97C", "U+C97D",
            "U+C97E", "U+C97F", "U+C980", "U+C981", "U+C982", "U+C983",
            "U+C984", "U+C985", "U+C986", "U+C987">>,
          << "U+C988", "U+C989", "U+C98A", "U+C98B", "U+C98C", "U+C98D",
            "U+C98E", "U+C98F", "U+C990", "U+C991", "U+C992", "U+C993",
            "U+C994", "U+C995", "U+C996", "U+C997", "U+C998", "U+C999",
            "U+C99A", "U+C99B", "U+C99C", "U+C99D", "U+C99E", "U+C99F",
            "U+C9A0", "U+C9A1", "U+C9A2", "U+C9A3">>,
          << "U+C9A4", "U+C9A5", "U+C9A6", "U+C9A7", "U+C9A8", "U+C9A9",
            "U+C9AA", "U+C9AB", "U+C9AC", "U+C9AD", "U+C9AE", "U+C9AF",
            "U+C9B0", "U+C9B1", "U+C9B2", "U+C9B3", "U+C9B4", "U+C9B5",
            "U+C9B6", "U+C9B7", "U+C9B8", "U+C9B9", "U+C9BA", "U+C9BB",
            "U+C9BC", "U+C9BD", "U+C9BE", "U+C9BF">>,
          << "U+C9C0", "U+C9C1", "U+C9C2", "U+C9C3", "U+C9C4", "U+C9C5",
            "U+C9C6", "U+C9C7", "U+C9C8", "U+C9C9", "U+C9CA", "U+C9CB",
            "U+C9CC", "U+C9CD", "U+C9CE", "U+C9CF", "U+C9D0", "U+C9D1",
            "U+C9D2", "U+C9D3", "U+C9D4", "U+C9D5", "U+C9D6", "U+C9D7",
            "U+C9D8", "U+C9D9", "U+C9DA", "U+C9DB">> >>,
       << << "U+C9DC", "U+C9DD", "U+C9DE", "U+C9DF", "U+C9E0", "U+C9E1",
            "U+C9E2", "U+C9E3", "U+C9E4", "U+C9E5", "U+C9E6", "U+C9E7",
            "U+C9E8", "U+C9E9", "U+C9EA", "U+C9EB", "U+C9EC", "U+C9ED",
            "U+C9EE", "U+C9EF", "U+C9F0", "U+C9F1", "U+C9F2", "U+C9F3",
            "U+C9F4", "U+C9F5", "U+C9F6", "U+C9F7">>,
          << "U+C9F8", "U+C9F9", "U+C9FA", "U+C9FB", "U+C9FC", "U+C9FD",
            "U+C9FE", "U+C9FF", "U+CA00", "U+CA01", "U+CA02", "U+CA03",
            "U+CA04", "U+CA05", "U+CA06", "U+CA07", "U+CA08", "U+CA09",
            "U+CA0A", "U+CA0B", "U+CA0C", "U+CA0D", "U+CA0E", "U+CA0F",
            "U+CA10", "U+CA11", "U+CA12", "U+CA13">>,
          << "U+CA14", "U+CA15", "U+CA16", "U+CA17", "U+CA18", "U+CA19",
            "U+CA1A", "U+CA1B", "U+CA1C", "U+CA1D", "U+CA1E", "U+CA1F",
            "U+CA20", "U+CA21", "U+CA22", "U+CA23", "U+CA24", "U+CA25",
            "U+CA26", "U+CA27", "U+CA28", "U+CA29", "U+CA2A", "U+CA2B",
            "U+CA2C", "U+CA2D", "U+CA2E", "U+CA2F">>,
          << "U+CA30", "U+CA31", "U+CA32", "U+CA33", "U+CA34", "U+CA35",
            "U+CA36", "U+CA37", "U+CA38", "U+CA39", "U+CA3A", "U+CA3B",
            "U+CA3C", "U+CA3D", "U+CA3E", "U+CA3F", "U+CA40", "U+CA41",
            "U+CA42", "U+CA43", "U+CA44", "U+CA45", "U+CA46", "U+CA47",
            "U+CA48", "U+CA49", "U+CA4A", "U+CA4B">>,
          << "U+CA4C", "U+CA4D", "U+CA4E", "U+CA4F", "U+CA50", "U+CA51",
            "U+CA52", "U+CA53", "U+CA54", "U+CA55", "U+CA56", "U+CA57",
            "U+CA58", "U+CA59", "U+CA5A", "U+CA5B", "U+CA5C", "U+CA5D",
            "U+CA5E", "U+CA5F", "U+CA60", "U+CA61", "U+CA62", "U+CA63",
            "U+CA64", "U+CA65", "U+CA66", "U+CA67">>,
          << "U+CA68", "U+CA69", "U+CA6A", "U+CA6B", "U+CA6C", "U+CA6D",
            "U+CA6E", "U+CA6F", "U+CA70", "U+CA71", "U+CA72", "U+CA73",
            "U+CA74", "U+CA75", "U+CA76", "U+CA77", "U+CA78", "U+CA79",
            "U+CA7A", "U+CA7B", "U+CA7C", "U+CA7D", "U+CA7E", "U+CA7F",
            "U+CA80", "U+CA81", "U+CA82", "U+CA83">>,
          << "U+CA84", "U+CA85", "U+CA86", "U+CA87", "U+CA88", "U+CA89",
            "U+CA8A", "U+CA8B", "U+CA8C", "U+CA8D", "U+CA8E", "U+CA8F",
            "U+CA90", "U+CA91", "U+CA92", "U+CA93", "U+CA94", "U+CA95",
            "U+CA96", "U+CA97", "U+CA98", "U+CA99", "U+CA9A", "U+CA9B",
            "U+CA9C", "U+CA9D", "U+CA9E", "U+CA9F">>,
          << "U+CAA0", "U+CAA1", "U+CAA2", "U+CAA3", "U+CAA4", "U+CAA5",
            "U+CAA6", "U+CAA7", "U+CAA8", "U+CAA9", "U+CAAA", "U+CAAB",
            "U+CAAC", "U+CAAD", "U+CAAE", "U+CAAF", "U+CAB0", "U+CAB1",
            "U+CAB2", "U+CAB3", "U+CAB4", "U+CAB5", "U+CAB6", "U+CAB7",
            "U+CAB8", "U+CAB9", "U+CABA", "U+CABB">>,
          << "U+CABC", "U+CABD", "U+CABE", "U+CABF", "U+CAC0", "U+CAC1",
            "U+CAC2", "U+CAC3", "U+CAC4", "U+CAC5", "U+CAC6", "U+CAC7",
            "U+CAC8", "U+CAC9", "U+CACA", "U+CACB", "U+CACC", "U+CACD",
            "U+CACE", "U+CACF", "U+CAD0", "U+CAD1", "U+CAD2", "U+CAD3",
            "U+CAD4", "U+CAD5", "U+CAD6", "U+CAD7">>,
          << "U+CAD8", "U+CAD9", "U+CADA", "U+CADB", "U+CADC", "U+CADD",
            "U+CADE", "U+CADF", "U+CAE0", "U+CAE1", "U+CAE2", "U+CAE3",
            "U+CAE4", "U+CAE5", "U+CAE6", "U+CAE7", "U+CAE8", "U+CAE9",
            "U+CAEA", "U+CAEB", "U+CAEC", "U+CAED", "U+CAEE", "U+CAEF",
            "U+CAF0", "U+CAF1", "U+CAF2", "U+CAF3">>,
          << "U+CAF4", "U+CAF5", "U+CAF6", "U+CAF7", "U+CAF8", "U+CAF9",
            "U+CAFA", "U+CAFB", "U+CAFC", "U+CAFD", "U+CAFE", "U+CAFF",
            "U+CB00", "U+CB01", "U+CB02", "U+CB03", "U+CB04", "U+CB05",
            "U+CB06", "U+CB07", "U+CB08", "U+CB09", "U+CB0A", "U+CB0B",
            "U+CB0C", "U+CB0D", "U+CB0E", "U+CB0F">>,
          << "U+CB10", "U+CB11", "U+CB12", "U+CB13", "U+CB14", "U+CB15",
            "U+CB16", "U+CB17", "U+CB18", "U+CB19", "U+CB1A", "U+CB1B",
            "U+CB1C", "U+CB1D", "U+CB1E", "U+CB1F", "U+CB20", "U+CB21",
            "U+CB22", "U+CB23", "U+CB24", "U+CB25", "U+CB26", "U+CB27",
            "U+CB28", "U+CB29", "U+CB2A", "U+CB2B">>,
          << "U+CB2C", "U+CB2D", "U+CB2E", "U+CB2F", "U+CB30", "U+CB31",
            "U+CB32", "U+CB33", "U+CB34", "U+CB35", "U+CB36", "U+CB37",
            "U+CB38", "U+CB39", "U+CB3A", "U+CB3B", "U+CB3C", "U+CB3D",
            "U+CB3E", "U+CB3F", "U+CB40", "U+CB41", "U+CB42", "U+CB43",
            "U+CB44", "U+CB45", "U+CB46", "U+CB47">>,
          << "U+CB48", "U+CB49", "U+CB4A", "U+CB4B", "U+CB4C", "U+CB4D",
            "U+CB4E", "U+CB4F", "U+CB50", "U+CB51", "U+CB52", "U+CB53",
            "U+CB54", "U+CB55", "U+CB56", "U+CB57", "U+CB58", "U+CB59",
            "U+CB5A", "U+CB5B", "U+CB5C", "U+CB5D", "U+CB5E", "U+CB5F",
            "U+CB60", "U+CB61", "U+CB62", "U+CB63">>,
          << "U+CB64", "U+CB65", "U+CB66", "U+CB67", "U+CB68", "U+CB69",
            "U+CB6A", "U+CB6B", "U+CB6C", "U+CB6D", "U+CB6E", "U+CB6F",
            "U+CB70", "U+CB71", "U+CB72", "U+CB73", "U+CB74", "U+CB75",
            "U+CB76", "U+CB77", "U+CB78", "U+CB79", "U+CB7A", "U+CB7B",
            "U+CB7C", "U+CB7D", "U+CB7E", "U+CB7F">>,
          << "U+CB80", "U+CB81", "U+CB82", "U+CB83", "U+CB84", "U+CB85",
            "U+CB86", "U+CB87", "U+CB88", "U+CB89", "U+CB8A", "U+CB8B",
            "U+CB8C", "U+CB8D", "U+CB8E", "U+CB8F", "U+CB90", "U+CB91",
            "U+CB92", "U+CB93", "U+CB94", "U+CB95", "U+CB96", "U+CB97",
            "U+CB98", "U+CB99", "U+CB9A", "U+CB9B">>,
          << "U+CB9C", "U+CB9D", "U+CB9E", "U+CB9F", "U+CBA0", "U+CBA1",
            "U+CBA2", "U+CBA3", "U+CBA4", "U+CBA5", "U+CBA6", "U+CBA7",
            "U+CBA8", "U+CBA9", "U+CBAA", "U+CBAB", "U+CBAC", "U+CBAD",
            "U+CBAE", "U+CBAF", "U+CBB0", "U+CBB1", "U+CBB2", "U+CBB3",
            "U+CBB4", "U+CBB5", "U+CBB6", "U+CBB7">>,
          << "U+CBB8", "U+CBB9", "U+CBBA", "U+CBBB", "U+CBBC", "U+CBBD",
            "U+CBBE", "U+CBBF", "U+CBC0", "U+CBC1", "U+CBC2", "U+CBC3",
            "U+CBC4", "U+CBC5", "U+CBC6", "U+CBC7", "U+CBC8", "U+CBC9",
            "U+CBCA", "U+CBCB", "U+CBCC", "U+CBCD", "U+CBCE", "U+CBCF",
            "U+CBD0", "U+CBD1", "U+CBD2", "U+CBD3">>,
          << "U+CBD4", "U+CBD5", "U+CBD6", "U+CBD7", "U+CBD8", "U+CBD9",
            "U+CBDA", "U+CBDB", "U+CBDC", "U+CBDD", "U+CBDE", "U+CBDF",
            "U+CBE0", "U+CBE1", "U+CBE2", "U+CBE3", "U+CBE4", "U+CBE5",
            "U+CBE6", "U+CBE7", "U+CBE8", "U+CBE9", "U+CBEA", "U+CBEB",
            "U+CBEC", "U+CBED", "U+CBEE", "U+CBEF">>,
          << "U+CBF0", "U+CBF1", "U+CBF2", "U+CBF3", "U+CBF4", "U+CBF5",
            "U+CBF6", "U+CBF7", "U+CBF8", "U+CBF9", "U+CBFA", "U+CBFB",
            "U+CBFC", "U+CBFD", "U+CBFE", "U+CBFF", "U+CC00", "U+CC01",
            "U+CC02", "U+CC03", "U+CC04", "U+CC05", "U+CC06", "U+CC07",
            "U+CC08", "U+CC09", "U+CC0A", "U+CC0B">>,
          << "U+CC0C", "U+CC0D", "U+CC0E", "U+CC0F", "U+CC10", "U+CC11",
            "U+CC12", "U+CC13", "U+CC14", "U+CC15", "U+CC16", "U+CC17",
            "U+CC18", "U+CC19", "U+CC1A", "U+CC1B", "U+CC1C", "U+CC1D",
            "U+CC1E", "U+CC1F", "U+CC20", "U+CC21", "U+CC22", "U+CC23",
            "U+CC24", "U+CC25", "U+CC26", "U+CC27">> >>,
       << << "U+CC28", "U+CC29", "U+CC2A", "U+CC2B", "U+CC2C", "U+CC2D",
            "U+CC2E", "U+CC2F", "U+CC30", "U+CC31", "U+CC32", "U+CC33",
            "U+CC34", "U+CC35", "U+CC36", "U+CC37", "U+CC38", "U+CC39",
            "U+CC3A", "U+CC3B", "U+CC3C", "U+CC3D", "U+CC3E", "U+CC3F",
            "U+CC40", "U+CC41", "U+CC42", "U+CC43">>,
          << "U+CC44", "U+CC45", "U+CC46", "U+CC47", "U+CC48", "U+CC49",
            "U+CC4A", "U+CC4B", "U+CC4C", "U+CC4D", "U+CC4E", "U+CC4F",
            "U+CC50", "U+CC51", "U+CC52", "U+CC53", "U+CC54", "U+CC55",
            "U+CC56", "U+CC57", "U+CC58", "U+CC59", "U+CC5A", "U+CC5B",
            "U+CC5C", "U+CC5D", "U+CC5E", "U+CC5F">>,
          << "U+CC60", "U+CC61", "U+CC62", "U+CC63", "U+CC64", "U+CC65",
            "U+CC66", "U+CC67", "U+CC68", "U+CC69", "U+CC6A", "U+CC6B",
            "U+CC6C", "U+CC6D", "U+CC6E", "U+CC6F", "U+CC70", "U+CC71",
            "U+CC72", "U+CC73", "U+CC74", "U+CC75", "U+CC76", "U+CC77",
            "U+CC78", "U+CC79", "U+CC7A", "U+CC7B">>,
          << "U+CC7C", "U+CC7D", "U+CC7E", "U+CC7F", "U+CC80", "U+CC81",
            "U+CC82", "U+CC83", "U+CC84", "U+CC85", "U+CC86", "U+CC87",
            "U+CC88", "U+CC89", "U+CC8A", "U+CC8B", "U+CC8C", "U+CC8D",
            "U+CC8E", "U+CC8F", "U+CC90", "U+CC91", "U+CC92", "U+CC93",
            "U+CC94", "U+CC95", "U+CC96", "U+CC97">>,
          << "U+CC98", "U+CC99", "U+CC9A", "U+CC9B", "U+CC9C", "U+CC9D",
            "U+CC9E", "U+CC9F", "U+CCA0", "U+CCA1", "U+CCA2", "U+CCA3",
            "U+CCA4", "U+CCA5", "U+CCA6", "U+CCA7", "U+CCA8", "U+CCA9",
            "U+CCAA", "U+CCAB", "U+CCAC", "U+CCAD", "U+CCAE", "U+CCAF",
            "U+CCB0", "U+CCB1", "U+CCB2", "U+CCB3">>,
          << "U+CCB4", "U+CCB5", "U+CCB6", "U+CCB7", "U+CCB8", "U+CCB9",
            "U+CCBA", "U+CCBB", "U+CCBC", "U+CCBD", "U+CCBE", "U+CCBF",
            "U+CCC0", "U+CCC1", "U+CCC2", "U+CCC3", "U+CCC4", "U+CCC5",
            "U+CCC6", "U+CCC7", "U+CCC8", "U+CCC9", "U+CCCA", "U+CCCB",
            "U+CCCC", "U+CCCD", "U+CCCE", "U+CCCF">>,
          << "U+CCD0", "U+CCD1", "U+CCD2", "U+CCD3", "U+CCD4", "U+CCD5",
            "U+CCD6", "U+CCD7", "U+CCD8", "U+CCD9", "U+CCDA", "U+CCDB",
            "U+CCDC", "U+CCDD", "U+CCDE", "U+CCDF", "U+CCE0", "U+CCE1",
            "U+CCE2", "U+CCE3", "U+CCE4", "U+CCE5", "U+CCE6", "U+CCE7",
            "U+CCE8", "U+CCE9", "U+CCEA", "U+CCEB">>,
          << "U+CCEC", "U+CCED", "U+CCEE", "U+CCEF", "U+CCF0", "U+CCF1",
            "U+CCF2", "U+CCF3", "U+CCF4", "U+CCF5", "U+CCF6", "U+CCF7",
            "U+CCF8", "U+CCF9", "U+CCFA", "U+CCFB", "U+CCFC", "U+CCFD",
            "U+CCFE", "U+CCFF", "U+CD00", "U+CD01", "U+CD02", "U+CD03",
            "U+CD04", "U+CD05", "U+CD06", "U+CD07">>,
          << "U+CD08", "U+CD09", "U+CD0A", "U+CD0B", "U+CD0C", "U+CD0D",
            "U+CD0E", "U+CD0F", "U+CD10", "U+CD11", "U+CD12", "U+CD13",
            "U+CD14", "U+CD15", "U+CD16", "U+CD17", "U+CD18", "U+CD19",
            "U+CD1A", "U+CD1B", "U+CD1C", "U+CD1D", "U+CD1E", "U+CD1F",
            "U+CD20", "U+CD21", "U+CD22", "U+CD23">>,
          << "U+CD24", "U+CD25", "U+CD26", "U+CD27", "U+CD28", "U+CD29",
            "U+CD2A", "U+CD2B", "U+CD2C", "U+CD2D", "U+CD2E", "U+CD2F",
            "U+CD30", "U+CD31", "U+CD32", "U+CD33", "U+CD34", "U+CD35",
            "U+CD36", "U+CD37", "U+CD38", "U+CD39", "U+CD3A", "U+CD3B",
            "U+CD3C", "U+CD3D", "U+CD3E", "U+CD3F">>,
          << "U+CD40", "U+CD41", "U+CD42", "U+CD43", "U+CD44", "U+CD45",
            "U+CD46", "U+CD47", "U+CD48", "U+CD49", "U+CD4A", "U+CD4B",
            "U+CD4C", "U+CD4D", "U+CD4E", "U+CD4F", "U+CD50", "U+CD51",
            "U+CD52", "U+CD53", "U+CD54", "U+CD55", "U+CD56", "U+CD57",
            "U+CD58", "U+CD59", "U+CD5A", "U+CD5B">>,
          << "U+CD5C", "U+CD5D", "U+CD5E", "U+CD5F", "U+CD60", "U+CD61",
            "U+CD62", "U+CD63", "U+CD64", "U+CD65", "U+CD66", "U+CD67",
            "U+CD68", "U+CD69", "U+CD6A", "U+CD6B", "U+CD6C", "U+CD6D",
            "U+CD6E", "U+CD6F", "U+CD70", "U+CD71", "U+CD72", "U+CD73",
            "U+CD74", "U+CD75", "U+CD76", "U+CD77">>,
          << "U+CD78", "U+CD79", "U+CD7A", "U+CD7B", "U+CD7C", "U+CD7D",
            "U+CD7E", "U+CD7F", "U+CD80", "U+CD81", "U+CD82", "U+CD83",
            "U+CD84", "U+CD85", "U+CD86", "U+CD87", "U+CD88", "U+CD89",
            "U+CD8A", "U+CD8B", "U+CD8C", "U+CD8D", "U+CD8E", "U+CD8F",
            "U+CD90", "U+CD91", "U+CD92", "U+CD93">>,
          << "U+CD94", "U+CD95", "U+CD96", "U+CD97", "U+CD98", "U+CD99",
            "U+CD9A", "U+CD9B", "U+CD9C", "U+CD9D", "U+CD9E", "U+CD9F",
            "U+CDA0", "U+CDA1", "U+CDA2", "U+CDA3", "U+CDA4", "U+CDA5",
            "U+CDA6", "U+CDA7", "U+CDA8", "U+CDA9", "U+CDAA", "U+CDAB",
            "U+CDAC", "U+CDAD", "U+CDAE", "U+CDAF">>,
          << "U+CDB0", "U+CDB1", "U+CDB2", "U+CDB3", "U+CDB4", "U+CDB5",
            "U+CDB6", "U+CDB7", "U+CDB8", "U+CDB9", "U+CDBA", "U+CDBB",
            "U+CDBC", "U+CDBD", "U+CDBE", "U+CDBF", "U+CDC0", "U+CDC1",
            "U+CDC2", "U+CDC3", "U+CDC4", "U+CDC5", "U+CDC6", "U+CDC7",
            "U+CDC8", "U+CDC9", "U+CDCA", "U+CDCB">>,
          << "U+CDCC", "U+CDCD", "U+CDCE", "U+CDCF", "U+CDD0", "U+CDD1",
            "U+CDD2", "U+CDD3", "U+CDD4", "U+CDD5", "U+CDD6", "U+CDD7",
            "U+CDD8", "U+CDD9", "U+CDDA", "U+CDDB", "U+CDDC", "U+CDDD",
            "U+CDDE", "U+CDDF", "U+CDE0", "U+CDE1", "U+CDE2", "U+CDE3",
            "U+CDE4", "U+CDE5", "U+CDE6", "U+CDE7">>,
          << "U+CDE8", "U+CDE9", "U+CDEA", "U+CDEB", "U+CDEC", "U+CDED",
            "U+CDEE", "U+CDEF", "U+CDF0", "U+CDF1", "U+CDF2", "U+CDF3",
            "U+CDF4", "U+CDF5", "U+CDF6", "U+CDF7", "U+CDF8", "U+CDF9",
            "U+CDFA", "U+CDFB", "U+CDFC", "U+CDFD", "U+CDFE", "U+CDFF",
            "U+CE00", "U+CE01", "U+CE02", "U+CE03">>,
          << "U+CE04", "U+CE05", "U+CE06", "U+CE07", "U+CE08", "U+CE09",
            "U+CE0A", "U+CE0B", "U+CE0C", "U+CE0D", "U+CE0E", "U+CE0F",
            "U+CE10", "U+CE11", "U+CE12", "U+CE13", "U+CE14", "U+CE15",
            "U+CE16", "U+CE17", "U+CE18", "U+CE19", "U+CE1A", "U+CE1B",
            "U+CE1C", "U+CE1D", "U+CE1E", "U+CE1F">>,
          << "U+CE20", "U+CE21", "U+CE22", "U+CE23", "U+CE24", "U+CE25",
            "U+CE26", "U+CE27", "U+CE28", "U+CE29", "U+CE2A", "U+CE2B",
            "U+CE2C", "U+CE2D", "U+CE2E", "U+CE2F", "U+CE30", "U+CE31",
            "U+CE32", "U+CE33", "U+CE34", "U+CE35", "U+CE36", "U+CE37",
            "U+CE38", "U+CE39", "U+CE3A", "U+CE3B">>,
          << "U+CE3C", "U+CE3D", "U+CE3E", "U+CE3F", "U+CE40", "U+CE41",
            "U+CE42", "U+CE43", "U+CE44", "U+CE45", "U+CE46", "U+CE47",
            "U+CE48", "U+CE49", "U+CE4A", "U+CE4B", "U+CE4C", "U+CE4D",
            "U+CE4E", "U+CE4F", "U+CE50", "U+CE51", "U+CE52", "U+CE53",
            "U+CE54", "U+CE55", "U+CE56", "U+CE57">>,
          << "U+CE58", "U+CE59", "U+CE5A", "U+CE5B", "U+CE5C", "U+CE5D",
            "U+CE5E", "U+CE5F", "U+CE60", "U+CE61", "U+CE62", "U+CE63",
            "U+CE64", "U+CE65", "U+CE66", "U+CE67", "U+CE68", "U+CE69",
            "U+CE6A", "U+CE6B", "U+CE6C", "U+CE6D", "U+CE6E", "U+CE6F",
            "U+CE70", "U+CE71", "U+CE72", "U+CE73">> >>,
       << << "U+CE74", "U+CE75", "U+CE76", "U+CE77", "U+CE78", "U+CE79",
            "U+CE7A", "U+CE7B", "U+CE7C", "U+CE7D", "U+CE7E", "U+CE7F",
            "U+CE80", "U+CE81", "U+CE82", "U+CE83", "U+CE84", "U+CE85",
            "U+CE86", "U+CE87", "U+CE88", "U+CE89", "U+CE8A", "U+CE8B",
            "U+CE8C", "U+CE8D", "U+CE8E", "U+CE8F">>,
          << "U+CE90", "U+CE91", "U+CE92", "U+CE93", "U+CE94", "U+CE95",
            "U+CE96", "U+CE97", "U+CE98", "U+CE99", "U+CE9A", "U+CE9B",
            "U+CE9C", "U+CE9D", "U+CE9E", "U+CE9F", "U+CEA0", "U+CEA1",
            "U+CEA2", "U+CEA3", "U+CEA4", "U+CEA5", "U+CEA6", "U+CEA7",
            "U+CEA8", "U+CEA9", "U+CEAA", "U+CEAB">>,
          << "U+CEAC", "U+CEAD", "U+CEAE", "U+CEAF", "U+CEB0", "U+CEB1",
            "U+CEB2", "U+CEB3", "U+CEB4", "U+CEB5", "U+CEB6", "U+CEB7",
            "U+CEB8", "U+CEB9", "U+CEBA", "U+CEBB", "U+CEBC", "U+CEBD",
            "U+CEBE", "U+CEBF", "U+CEC0", "U+CEC1", "U+CEC2", "U+CEC3",
            "U+CEC4", "U+CEC5", "U+CEC6", "U+CEC7">>,
          << "U+CEC8", "U+CEC9", "U+CECA", "U+CECB", "U+CECC", "U+CECD",
            "U+CECE", "U+CECF", "U+CED0", "U+CED1", "U+CED2", "U+CED3",
            "U+CED4", "U+CED5", "U+CED6", "U+CED7", "U+CED8", "U+CED9",
            "U+CEDA", "U+CEDB", "U+CEDC", "U+CEDD", "U+CEDE", "U+CEDF",
            "U+CEE0", "U+CEE1", "U+CEE2", "U+CEE3">>,
          << "U+CEE4", "U+CEE5", "U+CEE6", "U+CEE7", "U+CEE8", "U+CEE9",
            "U+CEEA", "U+CEEB", "U+CEEC", "U+CEED", "U+CEEE", "U+CEEF",
            "U+CEF0", "U+CEF1", "U+CEF2", "U+CEF3", "U+CEF4", "U+CEF5",
            "U+CEF6", "U+CEF7", "U+CEF8", "U+CEF9", "U+CEFA", "U+CEFB",
            "U+CEFC", "U+CEFD", "U+CEFE", "U+CEFF">>,
          << "U+CF00", "U+CF01", "U+CF02", "U+CF03", "U+CF04", "U+CF05",
            "U+CF06", "U+CF07", "U+CF08", "U+CF09", "U+CF0A", "U+CF0B",
            "U+CF0C", "U+CF0D", "U+CF0E", "U+CF0F", "U+CF10", "U+CF11",
            "U+CF12", "U+CF13", "U+CF14", "U+CF15", "U+CF16", "U+CF17",
            "U+CF18", "U+CF19", "U+CF1A", "U+CF1B">>,
          << "U+CF1C", "U+CF1D", "U+CF1E", "U+CF1F", "U+CF20", "U+CF21",
            "U+CF22", "U+CF23", "U+CF24", "U+CF25", "U+CF26", "U+CF27",
            "U+CF28", "U+CF29", "U+CF2A", "U+CF2B", "U+CF2C", "U+CF2D",
            "U+CF2E", "U+CF2F", "U+CF30", "U+CF31", "U+CF32", "U+CF33",
            "U+CF34", "U+CF35", "U+CF36", "U+CF37">>,
          << "U+CF38", "U+CF39", "U+CF3A", "U+CF3B", "U+CF3C", "U+CF3D",
            "U+CF3E", "U+CF3F", "U+CF40", "U+CF41", "U+CF42", "U+CF43",
            "U+CF44", "U+CF45", "U+CF46", "U+CF47", "U+CF48", "U+CF49",
            "U+CF4A", "U+CF4B", "U+CF4C", "U+CF4D", "U+CF4E", "U+CF4F",
            "U+CF50", "U+CF51", "U+CF52", "U+CF53">>,
          << "U+CF54", "U+CF55", "U+CF56", "U+CF57", "U+CF58", "U+CF59",
            "U+CF5A", "U+CF5B", "U+CF5C", "U+CF5D", "U+CF5E", "U+CF5F",
            "U+CF60", "U+CF61", "U+CF62", "U+CF63", "U+CF64", "U+CF65",
            "U+CF66", "U+CF67", "U+CF68", "U+CF69", "U+CF6A", "U+CF6B",
            "U+CF6C", "U+CF6D", "U+CF6E", "U+CF6F">>,
          << "U+CF70", "U+CF71", "U+CF72", "U+CF73", "U+CF74", "U+CF75",
            "U+CF76", "U+CF77", "U+CF78", "U+CF79", "U+CF7A", "U+CF7B",
            "U+CF7C", "U+CF7D", "U+CF7E", "U+CF7F", "U+CF80", "U+CF81",
            "U+CF82", "U+CF83", "U+CF84", "U+CF85", "U+CF86", "U+CF87",
            "U+CF88", "U+CF89", "U+CF8A", "U+CF8B">>,
          << "U+CF8C", "U+CF8D", "U+CF8E", "U+CF8F", "U+CF90", "U+CF91",
            "U+CF92", "U+CF93", "U+CF94", "U+CF95", "U+CF96", "U+CF97",
            "U+CF98", "U+CF99", "U+CF9A", "U+CF9B", "U+CF9C", "U+CF9D",
            "U+CF9E", "U+CF9F", "U+CFA0", "U+CFA1", "U+CFA2", "U+CFA3",
            "U+CFA4", "U+CFA5", "U+CFA6", "U+CFA7">>,
          << "U+CFA8", "U+CFA9", "U+CFAA", "U+CFAB", "U+CFAC", "U+CFAD",
            "U+CFAE", "U+CFAF", "U+CFB0", "U+CFB1", "U+CFB2", "U+CFB3",
            "U+CFB4", "U+CFB5", "U+CFB6", "U+CFB7", "U+CFB8", "U+CFB9",
            "U+CFBA", "U+CFBB", "U+CFBC", "U+CFBD", "U+CFBE", "U+CFBF",
            "U+CFC0", "U+CFC1", "U+CFC2", "U+CFC3">>,
          << "U+CFC4", "U+CFC5", "U+CFC6", "U+CFC7", "U+CFC8", "U+CFC9",
            "U+CFCA", "U+CFCB", "U+CFCC", "U+CFCD", "U+CFCE", "U+CFCF",
            "U+CFD0", "U+CFD1", "U+CFD2", "U+CFD3", "U+CFD4", "U+CFD5",
            "U+CFD6", "U+CFD7", "U+CFD8", "U+CFD9", "U+CFDA", "U+CFDB",
            "U+CFDC", "U+CFDD", "U+CFDE", "U+CFDF">>,
          << "U+CFE0", "U+CFE1", "U+CFE2", "U+CFE3", "U+CFE4", "U+CFE5",
            "U+CFE6", "U+CFE7", "U+CFE8", "U+CFE9", "U+CFEA", "U+CFEB",
            "U+CFEC", "U+CFED", "U+CFEE", "U+CFEF", "U+CFF0", "U+CFF1",
            "U+CFF2", "U+CFF3", "U+CFF4", "U+CFF5", "U+CFF6", "U+CFF7",
            "U+CFF8", "U+CFF9", "U+CFFA", "U+CFFB">>,
          << "U+CFFC", "U+CFFD", "U+CFFE", "U+CFFF", "U+D000", "U+D001",
            "U+D002", "U+D003", "U+D004", "U+D005", "U+D006", "U+D007",
            "U+D008", "U+D009", "U+D00A", "U+D00B", "U+D00C", "U+D00D",
            "U+D00E", "U+D00F", "U+D010", "U+D011", "U+D012", "U+D013",
            "U+D014", "U+D015", "U+D016", "U+D017">>,
          << "U+D018", "U+D019", "U+D01A", "U+D01B", "U+D01C", "U+D01D",
            "U+D01E", "U+D01F", "U+D020", "U+D021", "U+D022", "U+D023",
            "U+D024", "U+D025", "U+D026", "U+D027", "U+D028", "U+D029",
            "U+D02A", "U+D02B", "U+D02C", "U+D02D", "U+D02E", "U+D02F",
            "U+D030", "U+D031", "U+D032", "U+D033">>,
          << "U+D034", "U+D035", "U+D036", "U+D037", "U+D038", "U+D039",
            "U+D03A", "U+D03B", "U+D03C", "U+D03D", "U+D03E", "U+D03F",
            "U+D040", "U+D041", "U+D042", "U+D043", "U+D044", "U+D045",
            "U+D046", "U+D047", "U+D048", "U+D049", "U+D04A", "U+D04B",
            "U+D04C", "U+D04D", "U+D04E", "U+D04F">>,
          << "U+D050", "U+D051", "U+D052", "U+D053", "U+D054", "U+D055",
            "U+D056", "U+D057", "U+D058", "U+D059", "U+D05A", "U+D05B",
            "U+D05C", "U+D05D", "U+D05E", "U+D05F", "U+D060", "U+D061",
            "U+D062", "U+D063", "U+D064", "U+D065", "U+D066", "U+D067",
            "U+D068", "U+D069", "U+D06A", "U+D06B">>,
          << "U+D06C", "U+D06D", "U+D06E", "U+D06F", "U+D070", "U+D071",
            "U+D072", "U+D073", "U+D074", "U+D075", "U+D076", "U+D077",
            "U+D078", "U+D079", "U+D07A", "U+D07B", "U+D07C", "U+D07D",
            "U+D07E", "U+D07F", "U+D080", "U+D081", "U+D082", "U+D083",
            "U+D084", "U+D085", "U+D086", "U+D087">>,
          << "U+D088", "U+D089", "U+D08A", "U+D08B", "U+D08C", "U+D08D",
            "U+D08E", "U+D08F", "U+D090", "U+D091", "U+D092", "U+D093",
            "U+D094", "U+D095", "U+D096", "U+D097", "U+D098", "U+D099",
            "U+D09A", "U+D09B", "U+D09C", "U+D09D", "U+D09E", "U+D09F",
            "U+D0A0", "U+D0A1", "U+D0A2", "U+D0A3">>,
          << "U+D0A4", "U+D0A5", "U+D0A6", "U+D0A7", "U+D0A8", "U+D0A9",
            "U+D0AA", "U+D0AB", "U+D0AC", "U+D0AD", "U+D0AE", "U+D0AF",
            "U+D0B0", "U+D0B1", "U+D0B2", "U+D0B3", "U+D0B4", "U+D0B5",
            "U+D0B6", "U+D0B7", "U+D0B8", "U+D0B9", "U+D0BA", "U+D0BB",
            "U+D0BC", "U+D0BD", "U+D0BE", "U+D0BF">> >>,
       << << "U+D0C0", "U+D0C1", "U+D0C2", "U+D0C3", "U+D0C4", "U+D0C5",
            "U+D0C6", "U+D0C7", "U+D0C8", "U+D0C9", "U+D0CA", "U+D0CB",
            "U+D0CC", "U+D0CD", "U+D0CE", "U+D0CF", "U+D0D0", "U+D0D1",
            "U+D0D2", "U+D0D3", "U+D0D4", "U+D0D5", "U+D0D6", "U+D0D7",
            "U+D0D8", "U+D0D9", "U+D0DA", "U+D0DB">>,
          << "U+D0DC", "U+D0DD", "U+D0DE", "U+D0DF", "U+D0E0", "U+D0E1",
            "U+D0E2", "U+D0E3", "U+D0E4", "U+D0E5", "U+D0E6", "U+D0E7",
            "U+D0E8", "U+D0E9", "U+D0EA", "U+D0EB", "U+D0EC", "U+D0ED",
            "U+D0EE", "U+D0EF", "U+D0F0", "U+D0F1", "U+D0F2", "U+D0F3",
            "U+D0F4", "U+D0F5", "U+D0F6", "U+D0F7">>,
          << "U+D0F8", "U+D0F9", "U+D0FA", "U+D0FB", "U+D0FC", "U+D0FD",
            "U+D0FE", "U+D0FF", "U+D100", "U+D101", "U+D102", "U+D103",
            "U+D104", "U+D105", "U+D106", "U+D107", "U+D108", "U+D109",
            "U+D10A", "U+D10B", "U+D10C", "U+D10D", "U+D10E", "U+D10F",
            "U+D110", "U+D111", "U+D112", "U+D113">>,
          << "U+D114", "U+D115", "U+D116", "U+D117", "U+D118", "U+D119",
            "U+D11A", "U+D11B", "U+D11C", "U+D11D", "U+D11E", "U+D11F",
            "U+D120", "U+D121", "U+D122", "U+D123", "U+D124", "U+D125",
            "U+D126", "U+D127", "U+D128", "U+D129", "U+D12A", "U+D12B",
            "U+D12C", "U+D12D", "U+D12E", "U+D12F">>,
          << "U+D130", "U+D131", "U+D132", "U+D133", "U+D134", "U+D135",
            "U+D136", "U+D137", "U+D138", "U+D139", "U+D13A", "U+D13B",
            "U+D13C", "U+D13D", "U+D13E", "U+D13F", "U+D140", "U+D141",
            "U+D142", "U+D143", "U+D144", "U+D145", "U+D146", "U+D147",
            "U+D148", "U+D149", "U+D14A", "U+D14B">>,
          << "U+D14C", "U+D14D", "U+D14E", "U+D14F", "U+D150", "U+D151",
            "U+D152", "U+D153", "U+D154", "U+D155", "U+D156", "U+D157",
            "U+D158", "U+D159", "U+D15A", "U+D15B", "U+D15C", "U+D15D",
            "U+D15E", "U+D15F", "U+D160", "U+D161", "U+D162", "U+D163",
            "U+D164", "U+D165", "U+D166", "U+D167">>,
          << "U+D168", "U+D169", "U+D16A", "U+D16B", "U+D16C", "U+D16D",
            "U+D16E", "U+D16F", "U+D170", "U+D171", "U+D172", "U+D173",
            "U+D174", "U+D175", "U+D176", "U+D177", "U+D178", "U+D179",
            "U+D17A", "U+D17B", "U+D17C", "U+D17D", "U+D17E", "U+D17F",
            "U+D180", "U+D181", "U+D182", "U+D183">>,
          << "U+D184", "U+D185", "U+D186", "U+D187", "U+D188", "U+D189",
            "U+D18A", "U+D18B", "U+D18C", "U+D18D", "U+D18E", "U+D18F",
            "U+D190", "U+D191", "U+D192", "U+D193", "U+D194", "U+D195",
            "U+D196", "U+D197", "U+D198", "U+D199", "U+D19A", "U+D19B",
            "U+D19C", "U+D19D", "U+D19E", "U+D19F">>,
          << "U+D1A0", "U+D1A1", "U+D1A2", "U+D1A3", "U+D1A4", "U+D1A5",
            "U+D1A6", "U+D1A7", "U+D1A8", "U+D1A9", "U+D1AA", "U+D1AB",
            "U+D1AC", "U+D1AD", "U+D1AE", "U+D1AF", "U+D1B0", "U+D1B1",
            "U+D1B2", "U+D1B3", "U+D1B4", "U+D1B5", "U+D1B6", "U+D1B7",
            "U+D1B8", "U+D1B9", "U+D1BA", "U+D1BB">>,
          << "U+D1BC", "U+D1BD", "U+D1BE", "U+D1BF", "U+D1C0", "U+D1C1",
            "U+D1C2", "U+D1C3", "U+D1C4", "U+D1C5", "U+D1C6", "U+D1C7",
            "U+D1C8", "U+D1C9", "U+D1CA", "U+D1CB", "U+D1CC", "U+D1CD",
            "U+D1CE", "U+D1CF", "U+D1D0", "U+D1D1", "U+D1D2", "U+D1D3",
            "U+D1D4", "U+D1D5", "U+D1D6", "U+D1D7">>,
          << "U+D1D8", "U+D1D9", "U+D1DA", "U+D1DB", "U+D1DC", "U+D1DD",
            "U+D1DE", "U+D1DF", "U+D1E0", "U+D1E1", "U+D1E2", "U+D1E3",
            "U+D1E4", "U+D1E5", "U+D1E6", "U+D1E7", "U+D1E8", "U+D1E9",
            "U+D1EA", "U+D1EB", "U+D1EC", "U+D1ED", "U+D1EE", "U+D1EF",
            "U+D1F0", "U+D1F1", "U+D1F2", "U+D1F3">>,
          << "U+D1F4", "U+D1F5", "U+D1F6", "U+D1F7", "U+D1F8", "U+D1F9",
            "U+D1FA", "U+D1FB", "U+D1FC", "U+D1FD", "U+D1FE", "U+D1FF",
            "U+D200", "U+D201", "U+D202", "U+D203", "U+D204", "U+D205",
            "U+D206", "U+D207", "U+D208", "U+D209", "U+D20A", "U+D20B",
            "U+D20C", "U+D20D", "U+D20E", "U+D20F">>,
          << "U+D210", "U+D211", "U+D212", "U+D213", "U+D214", "U+D215",
            "U+D216", "U+D217", "U+D218", "U+D219", "U+D21A", "U+D21B",
            "U+D21C", "U+D21D", "U+D21E", "U+D21F", "U+D220", "U+D221",
            "U+D222", "U+D223", "U+D224", "U+D225", "U+D226", "U+D227",
            "U+D228", "U+D229", "U+D22A", "U+D22B">>,
          << "U+D22C", "U+D22D", "U+D22E", "U+D22F", "U+D230", "U+D231",
            "U+D232", "U+D233", "U+D234", "U+D235", "U+D236", "U+D237",
            "U+D238", "U+D239", "U+D23A", "U+D23B", "U+D23C", "U+D23D",
            "U+D23E", "U+D23F", "U+D240", "U+D241", "U+D242", "U+D243",
            "U+D244", "U+D245", "U+D246", "U+D247">>,
          << "U+D248", "U+D249", "U+D24A", "U+D24B", "U+D24C", "U+D24D",
            "U+D24E", "U+D24F", "U+D250", "U+D251", "U+D252", "U+D253",
            "U+D254", "U+D255", "U+D256", "U+D257", "U+D258", "U+D259",
            "U+D25A", "U+D25B", "U+D25C", "U+D25D", "U+D25E", "U+D25F",
            "U+D260", "U+D261", "U+D262", "U+D263">>,
          << "U+D264", "U+D265", "U+D266", "U+D267", "U+D268", "U+D269",
            "U+D26A", "U+D26B", "U+D26C", "U+D26D", "U+D26E", "U+D26F",
            "U+D270", "U+D271", "U+D272", "U+D273", "U+D274", "U+D275",
            "U+D276", "U+D277", "U+D278", "U+D279", "U+D27A", "U+D27B",
            "U+D27C", "U+D27D", "U+D27E", "U+D27F">>,
          << "U+D280", "U+D281", "U+D282", "U+D283", "U+D284", "U+D285",
            "U+D286", "U+D287", "U+D288", "U+D289", "U+D28A", "U+D28B",
            "U+D28C", "U+D28D", "U+D28E", "U+D28F", "U+D290", "U+D291",
            "U+D292", "U+D293", "U+D294", "U+D295", "U+D296", "U+D297",
            "U+D298", "U+D299", "U+D29A", "U+D29B">>,
          << "U+D29C", "U+D29D", "U+D29E", "U+D29F", "U+D2A0", "U+D2A1",
            "U+D2A2", "U+D2A3", "U+D2A4", "U+D2A5", "U+D2A6", "U+D2A7",
            "U+D2A8", "U+D2A9", "U+D2AA", "U+D2AB", "U+D2AC", "U+D2AD",
            "U+D2AE", "U+D2AF", "U+D2B0", "U+D2B1", "U+D2B2", "U+D2B3",
            "U+D2B4", "U+D2B5", "U+D2B6", "U+D2B7">>,
          << "U+D2B8", "U+D2B9", "U+D2BA", "U+D2BB", "U+D2BC", "U+D2BD",
            "U+D2BE", "U+D2BF", "U+D2C0", "U+D2C1", "U+D2C2", "U+D2C3",
            "U+D2C4", "U+D2C5", "U+D2C6", "U+D2C7", "U+D2C8", "U+D2C9",
            "U+D2CA", "U+D2CB", "U+D2CC", "U+D2CD", "U+D2CE", "U+D2CF",
            "U+D2D0", "U+D2D1", "U+D2D2", "U+D2D3">>,
          << "U+D2D4", "U+D2D5", "U+D2D6", "U+D2D7", "U+D2D8", "U+D2D9",
            "U+D2DA", "U+D2DB", "U+D2DC", "U+D2DD", "U+D2DE", "U+D2DF",
            "U+D2E0", "U+D2E1", "U+D2E2", "U+D2E3", "U+D2E4", "U+D2E5",
            "U+D2E6", "U+D2E7", "U+D2E8", "U+D2E9", "U+D2EA", "U+D2EB",
            "U+D2EC", "U+D2ED", "U+D2EE", "U+D2EF">>,
          << "U+D2F0", "U+D2F1", "U+D2F2", "U+D2F3", "U+D2F4", "U+D2F5",
            "U+D2F6", "U+D2F7", "U+D2F8", "U+D2F9", "U+D2FA", "U+D2FB",
            "U+D2FC", "U+D2FD", "U+D2FE", "U+D2FF", "U+D300", "U+D301",
            "U+D302", "U+D303", "U+D304", "U+D305", "U+D306", "U+D307",
            "U+D308", "U+D309", "U+D30A", "U+D30B">> >>,
       << << "U+D30C", "U+D30D", "U+D30E", "U+D30F", "U+D310", "U+D311",
            "U+D312", "U+D313", "U+D314", "U+D315", "U+D316", "U+D317",
            "U+D318", "U+D319", "U+D31A", "U+D31B", "U+D31C", "U+D31D",
            "U+D31E", "U+D31F", "U+D320", "U+D321", "U+D322", "U+D323",
            "U+D324", "U+D325", "U+D326", "U+D327">>,
          << "U+D328", "U+D329", "U+D32A", "U+D32B", "U+D32C", "U+D32D",
            "U+D32E", "U+D32F", "U+D330", "U+D331", "U+D332", "U+D333",
            "U+D334", "U+D335", "U+D336", "U+D337", "U+D338", "U+D339",
            "U+D33A", "U+D33B", "U+D33C", "U+D33D", "U+D33E", "U+D33F",
            "U+D340", "U+D341", "U+D342", "U+D343">>,
          << "U+D344", "U+D345", "U+D346", "U+D347", "U+D348", "U+D349",
            "U+D34A", "U+D34B", "U+D34C", "U+D34D", "U+D34E", "U+D34F",
            "U+D350", "U+D351", "U+D352", "U+D353", "U+D354", "U+D355",
            "U+D356", "U+D357", "U+D358", "U+D359", "U+D35A", "U+D35B",
            "U+D35C", "U+D35D", "U+D35E", "U+D35F">>,
          << "U+D360", "U+D361", "U+D362", "U+D363", "U+D364", "U+D365",
            "U+D366", "U+D367", "U+D368", "U+D369", "U+D36A", "U+D36B",
            "U+D36C", "U+D36D", "U+D36E", "U+D36F", "U+D370", "U+D371",
            "U+D372", "U+D373", "U+D374", "U+D375", "U+D376", "U+D377",
            "U+D378", "U+D379", "U+D37A", "U+D37B">>,
          << "U+D37C", "U+D37D", "U+D37E", "U+D37F", "U+D380", "U+D381",
            "U+D382", "U+D383", "U+D384", "U+D385", "U+D386", "U+D387",
            "U+D388", "U+D389", "U+D38A", "U+D38B", "U+D38C", "U+D38D",
            "U+D38E", "U+D38F", "U+D390", "U+D391", "U+D392", "U+D393",
            "U+D394", "U+D395", "U+D396", "U+D397">>,
          << "U+D398", "U+D399", "U+D39A", "U+D39B", "U+D39C", "U+D39D",
            "U+D39E", "U+D39F", "U+D3A0", "U+D3A1", "U+D3A2", "U+D3A3",
            "U+D3A4", "U+D3A5", "U+D3A6", "U+D3A7", "U+D3A8", "U+D3A9",
            "U+D3AA", "U+D3AB", "U+D3AC", "U+D3AD", "U+D3AE", "U+D3AF",
            "U+D3B0", "U+D3B1", "U+D3B2", "U+D3B3">>,
          << "U+D3B4", "U+D3B5", "U+D3B6", "U+D3B7", "U+D3B8", "U+D3B9",
            "U+D3BA", "U+D3BB", "U+D3BC", "U+D3BD", "U+D3BE", "U+D3BF",
            "U+D3C0", "U+D3C1", "U+D3C2", "U+D3C3", "U+D3C4", "U+D3C5",
            "U+D3C6", "U+D3C7", "U+D3C8", "U+D3C9", "U+D3CA", "U+D3CB",
            "U+D3CC", "U+D3CD", "U+D3CE", "U+D3CF">>,
          << "U+D3D0", "U+D3D1", "U+D3D2", "U+D3D3", "U+D3D4", "U+D3D5",
            "U+D3D6", "U+D3D7", "U+D3D8", "U+D3D9", "U+D3DA", "U+D3DB",
            "U+D3DC", "U+D3DD", "U+D3DE", "U+D3DF", "U+D3E0", "U+D3E1",
            "U+D3E2", "U+D3E3", "U+D3E4", "U+D3E5", "U+D3E6", "U+D3E7",
            "U+D3E8", "U+D3E9", "U+D3EA", "U+D3EB">>,
          << "U+D3EC", "U+D3ED", "U+D3EE", "U+D3EF", "U+D3F0", "U+D3F1",
            "U+D3F2", "U+D3F3", "U+D3F4", "U+D3F5", "U+D3F6", "U+D3F7",
            "U+D3F8", "U+D3F9", "U+D3FA", "U+D3FB", "U+D3FC", "U+D3FD",
            "U+D3FE", "U+D3FF", "U+D400", "U+D401", "U+D402", "U+D403",
            "U+D404", "U+D405", "U+D406", "U+D407">>,
          << "U+D408", "U+D409", "U+D40A", "U+D40B", "U+D40C", "U+D40D",
            "U+D40E", "U+D40F", "U+D410", "U+D411", "U+D412", "U+D413",
            "U+D414", "U+D415", "U+D416", "U+D417", "U+D418", "U+D419",
            "U+D41A", "U+D41B", "U+D41C", "U+D41D", "U+D41E", "U+D41F",
            "U+D420", "U+D421", "U+D422", "U+D423">>,
          << "U+D424", "U+D425", "U+D426", "U+D427", "U+D428", "U+D429",
            "U+D42A", "U+D42B", "U+D42C", "U+D42D", "U+D42E", "U+D42F",
            "U+D430", "U+D431", "U+D432", "U+D433", "U+D434", "U+D435",
            "U+D436", "U+D437", "U+D438", "U+D439", "U+D43A", "U+D43B",
            "U+D43C", "U+D43D", "U+D43E", "U+D43F">>,
          << "U+D440", "U+D441", "U+D442", "U+D443", "U+D444", "U+D445",
            "U+D446", "U+D447", "U+D448", "U+D449", "U+D44A", "U+D44B",
            "U+D44C", "U+D44D", "U+D44E", "U+D44F", "U+D450", "U+D451",
            "U+D452", "U+D453", "U+D454", "U+D455", "U+D456", "U+D457",
            "U+D458", "U+D459", "U+D45A", "U+D45B">>,
          << "U+D45C", "U+D45D", "U+D45E", "U+D45F", "U+D460", "U+D461",
            "U+D462", "U+D463", "U+D464", "U+D465", "U+D466", "U+D467",
            "U+D468", "U+D469", "U+D46A", "U+D46B", "U+D46C", "U+D46D",
            "U+D46E", "U+D46F", "U+D470", "U+D471", "U+D472", "U+D473",
            "U+D474", "U+D475", "U+D476", "U+D477">>,
          << "U+D478", "U+D479", "U+D47A", "U+D47B", "U+D47C", "U+D47D",
            "U+D47E", "U+D47F", "U+D480", "U+D481", "U+D482", "U+D483",
            "U+D484", "U+D485", "U+D486", "U+D487", "U+D488", "U+D489",
            "U+D48A", "U+D48B", "U+D48C", "U+D48D", "U+D48E", "U+D48F",
            "U+D490", "U+D491", "U+D492", "U+D493">>,
          << "U+D494", "U+D495", "U+D496", "U+D497", "U+D498", "U+D499",
            "U+D49A", "U+D49B", "U+D49C", "U+D49D", "U+D49E", "U+D49F",
            "U+D4A0", "U+D4A1", "U+D4A2", "U+D4A3", "U+D4A4", "U+D4A5",
            "U+D4A6", "U+D4A7", "U+D4A8", "U+D4A9", "U+D4AA", "U+D4AB",
            "U+D4AC", "U+D4AD", "U+D4AE", "U+D4AF">>,
          << "U+D4B0", "U+D4B1", "U+D4B2", "U+D4B3", "U+D4B4", "U+D4B5",
            "U+D4B6", "U+D4B7", "U+D4B8", "U+D4B9", "U+D4BA", "U+D4BB",
            "U+D4BC", "U+D4BD", "U+D4BE", "U+D4BF", "U+D4C0", "U+D4C1",
            "U+D4C2", "U+D4C3", "U+D4C4", "U+D4C5", "U+D4C6", "U+D4C7",
            "U+D4C8", "U+D4C9", "U+D4CA", "U+D4CB">>,
          << "U+D4CC", "U+D4CD", "U+D4CE", "U+D4CF", "U+D4D0", "U+D4D1",
            "U+D4D2", "U+D4D3", "U+D4D4", "U+D4D5", "U+D4D6", "U+D4D7",
            "U+D4D8", "U+D4D9", "U+D4DA", "U+D4DB", "U+D4DC", "U+D4DD",
            "U+D4DE", "U+D4DF", "U+D4E0", "U+D4E1", "U+D4E2", "U+D4E3",
            "U+D4E4", "U+D4E5", "U+D4E6", "U+D4E7">>,
          << "U+D4E8", "U+D4E9", "U+D4EA", "U+D4EB", "U+D4EC", "U+D4ED",
            "U+D4EE", "U+D4EF", "U+D4F0", "U+D4F1", "U+D4F2", "U+D4F3",
            "U+D4F4", "U+D4F5", "U+D4F6", "U+D4F7", "U+D4F8", "U+D4F9",
            "U+D4FA", "U+D4FB", "U+D4FC", "U+D4FD", "U+D4FE", "U+D4FF",
            "U+D500", "U+D501", "U+D502", "U+D503">>,
          << "U+D504", "U+D505", "U+D506", "U+D507", "U+D508", "U+D509",
            "U+D50A", "U+D50B", "U+D50C", "U+D50D", "U+D50E", "U+D50F",
            "U+D510", "U+D511", "U+D512", "U+D513", "U+D514", "U+D515",
            "U+D516", "U+D517", "U+D518", "U+D519", "U+D51A", "U+D51B",
            "U+D51C", "U+D51D", "U+D51E", "U+D51F">>,
          << "U+D520", "U+D521", "U+D522", "U+D523", "U+D524", "U+D525",
            "U+D526", "U+D527", "U+D528", "U+D529", "U+D52A", "U+D52B",
            "U+D52C", "U+D52D", "U+D52E", "U+D52F", "U+D530", "U+D531",
            "U+D532", "U+D533", "U+D534", "U+D535", "U+D536", "U+D537",
            "U+D538", "U+D539", "U+D53A", "U+D53B">>,
          << "U+D53C", "U+D53D", "U+D53E", "U+D53F", "U+D540", "U+D541",
            "U+D542", "U+D543", "U+D544", "U+D545", "U+D546", "U+D547",
            "U+D548", "U+D549", "U+D54A", "U+D54B", "U+D54C", "U+D54D",
            "U+D54E", "U+D54F", "U+D550", "U+D551", "U+D552", "U+D553",
            "U+D554", "U+D555", "U+D556", "U+D557">> >>,
       << << "U+D558", "U+D559", "U+D55A", "U+D55B", "U+D55C", "U+D55D",
            "U+D55E", "U+D55F", "U+D560", "U+D561", "U+D562", "U+D563",
            "U+D564", "U+D565", "U+D566", "U+D567", "U+D568", "U+D569",
            "U+D56A", "U+D56B", "U+D56C", "U+D56D", "U+D56E", "U+D56F",
            "U+D570", "U+D571", "U+D572", "U+D573">>,
          << "U+D574", "U+D575", "U+D576", "U+D577", "U+D578", "U+D579",
            "U+D57A", "U+D57B", "U+D57C", "U+D57D", "U+D57E", "U+D57F",
            "U+D580", "U+D581", "U+D582", "U+D583", "U+D584", "U+D585",
            "U+D586", "U+D587", "U+D588", "U+D589", "U+D58A", "U+D58B",
            "U+D58C", "U+D58D", "U+D58E", "U+D58F">>,
          << "U+D590", "U+D591", "U+D592", "U+D593", "U+D594", "U+D595",
            "U+D596", "U+D597", "U+D598", "U+D599", "U+D59A", "U+D59B",
            "U+D59C", "U+D59D", "U+D59E", "U+D59F", "U+D5A0", "U+D5A1",
            "U+D5A2", "U+D5A3", "U+D5A4", "U+D5A5", "U+D5A6", "U+D5A7",
            "U+D5A8", "U+D5A9", "U+D5AA", "U+D5AB">>,
          << "U+D5AC", "U+D5AD", "U+D5AE", "U+D5AF", "U+D5B0", "U+D5B1",
            "U+D5B2", "U+D5B3", "U+D5B4", "U+D5B5", "U+D5B6", "U+D5B7",
            "U+D5B8", "U+D5B9", "U+D5BA", "U+D5BB", "U+D5BC", "U+D5BD",
            "U+D5BE", "U+D5BF", "U+D5C0", "U+D5C1", "U+D5C2", "U+D5C3",
            "U+D5C4", "U+D5C5", "U+D5C6", "U+D5C7">>,
          << "U+D5C8", "U+D5C9", "U+D5CA", "U+D5CB", "U+D5CC", "U+D5CD",
            "U+D5CE", "U+D5CF", "U+D5D0", "U+D5D1", "U+D5D2", "U+D5D3",
            "U+D5D4", "U+D5D5", "U+D5D6", "U+D5D7", "U+D5D8", "U+D5D9",
            "U+D5DA", "U+D5DB", "U+D5DC", "U+D5DD", "U+D5DE", "U+D5DF",
            "U+D5E0", "U+D5E1", "U+D5E2", "U+D5E3">>,
          << "U+D5E4", "U+D5E5", "U+D5E6", "U+D5E7", "U+D5E8", "U+D5E9",
            "U+D5EA", "U+D5EB", "U+D5EC", "U+D5ED", "U+D5EE", "U+D5EF",
            "U+D5F0", "U+D5F1", "U+D5F2", "U+D5F3", "U+D5F4", "U+D5F5",
            "U+D5F6", "U+D5F7", "U+D5F8", "U+D5F9", "U+D5FA", "U+D5FB",
            "U+D5FC", "U+D5FD", "U+D5FE", "U+D5FF">>,
          << "U+D600", "U+D601", "U+D602", "U+D603", "U+D604", "U+D605",
            "U+D606", "U+D607", "U+D608", "U+D609", "U+D60A", "U+D60B",
            "U+D60C", "U+D60D", "U+D60E", "U+D60F", "U+D610", "U+D611",
            "U+D612", "U+D613", "U+D614", "U+D615", "U+D616", "U+D617",
            "U+D618", "U+D619", "U+D61A", "U+D61B">>,
          << "U+D61C", "U+D61D", "U+D61E", "U+D61F", "U+D620", "U+D621",
            "U+D622", "U+D623", "U+D624", "U+D625", "U+D626", "U+D627",
            "U+D628", "U+D629", "U+D62A", "U+D62B", "U+D62C", "U+D62D",
            "U+D62E", "U+D62F", "U+D630", "U+D631", "U+D632", "U+D633",
            "U+D634", "U+D635", "U+D636", "U+D637">>,
          << "U+D638", "U+D639", "U+D63A", "U+D63B", "U+D63C", "U+D63D",
            "U+D63E", "U+D63F", "U+D640", "U+D641", "U+D642", "U+D643",
            "U+D644", "U+D645", "U+D646", "U+D647", "U+D648", "U+D649",
            "U+D64A", "U+D64B", "U+D64C", "U+D64D", "U+D64E", "U+D64F",
            "U+D650", "U+D651", "U+D652", "U+D653">>,
          << "U+D654", "U+D655", "U+D656", "U+D657", "U+D658", "U+D659",
            "U+D65A", "U+D65B", "U+D65C", "U+D65D", "U+D65E", "U+D65F",
            "U+D660", "U+D661", "U+D662", "U+D663", "U+D664", "U+D665",
            "U+D666", "U+D667", "U+D668", "U+D669", "U+D66A", "U+D66B",
            "U+D66C", "U+D66D", "U+D66E", "U+D66F">>,
          << "U+D670", "U+D671", "U+D672", "U+D673", "U+D674", "U+D675",
            "U+D676", "U+D677", "U+D678", "U+D679", "U+D67A", "U+D67B",
            "U+D67C", "U+D67D", "U+D67E", "U+D67F", "U+D680", "U+D681",
            "U+D682", "U+D683", "U+D684", "U+D685", "U+D686", "U+D687",
            "U+D688", "U+D689", "U+D68A", "U+D68B">>,
          << "U+D68C", "U+D68D", "U+D68E", "U+D68F", "U+D690", "U+D691",
            "U+D692", "U+D693", "U+D694", "U+D695", "U+D696", "U+D697",
            "U+D698", "U+D699", "U+D69A", "U+D69B", "U+D69C", "U+D69D",
            "U+D69E", "U+D69F", "U+D6A0", "U+D6A1", "U+D6A2", "U+D6A3",
            "U+D6A4", "U+D6A5", "U+D6A6", "U+D6A7">>,
          << "U+D6A8", "U+D6A9", "U+D6AA", "U+D6AB", "U+D6AC", "U+D6AD",
            "U+D6AE", "U+D6AF", "U+D6B0", "U+D6B1", "U+D6B2", "U+D6B3",
            "U+D6B4", "U+D6B5", "U+D6B6", "U+D6B7", "U+D6B8", "U+D6B9",
            "U+D6BA", "U+D6BB", "U+D6BC", "U+D6BD", "U+D6BE", "U+D6BF",
            "U+D6C0", "U+D6C1", "U+D6C2", "U+D6C3">>,
          << "U+D6C4", "U+D6C5", "U+D6C6", "U+D6C7", "U+D6C8", "U+D6C9",
            "U+D6CA", "U+D6CB", "U+D6CC", "U+D6CD", "U+D6CE", "U+D6CF",
            "U+D6D0", "U+D6D1", "U+D6D2", "U+D6D3", "U+D6D4", "U+D6D5",
            "U+D6D6", "U+D6D7", "U+D6D8", "U+D6D9", "U+D6DA", "U+D6DB",
            "U+D6DC", "U+D6DD", "U+D6DE", "U+D6DF">>,
          << "U+D6E0", "U+D6E1", "U+D6E2", "U+D6E3", "U+D6E4", "U+D6E5",
            "U+D6E6", "U+D6E7", "U+D6E8", "U+D6E9", "U+D6EA", "U+D6EB",
            "U+D6EC", "U+D6ED", "U+D6EE", "U+D6EF", "U+D6F0", "U+D6F1",
            "U+D6F2", "U+D6F3", "U+D6F4", "U+D6F5", "U+D6F6", "U+D6F7",
            "U+D6F8", "U+D6F9", "U+D6FA", "U+D6FB">>,
          << "U+D6FC", "U+D6FD", "U+D6FE", "U+D6FF", "U+D700", "U+D701",
            "U+D702", "U+D703", "U+D704", "U+D705", "U+D706", "U+D707",
            "U+D708", "U+D709", "U+D70A", "U+D70B", "U+D70C", "U+D70D",
            "U+D70E", "U+D70F", "U+D710", "U+D711", "U+D712", "U+D713",
            "U+D714", "U+D715", "U+D716", "U+D717">>,
          << "U+D718", "U+D719", "U+D71A", "U+D71B", "U+D71C", "U+D71D",
            "U+D71E", "U+D71F", "U+D720", "U+D721", "U+D722", "U+D723",
            "U+D724", "U+D725", "U+D726", "U+D727", "U+D728", "U+D729",
            "U+D72A", "U+D72B", "U+D72C", "U+D72D", "U+D72E", "U+D72F",
            "U+D730", "U+D731", "U+D732", "U+D733">>,
          << "U+D734", "U+D735", "U+D736", "U+D737", "U+D738", "U+D739",
            "U+D73A", "U+D73B", "U+D73C", "U+D73D", "U+D73E", "U+D73F",
            "U+D740", "U+D741", "U+D742", "U+D743", "U+D744", "U+D745",
            "U+D746", "U+D747", "U+D748", "U+D749", "U+D74A", "U+D74B",
            "U+D74C", "U+D74D", "U+D74E", "U+D74F">>,
          << "U+D750", "U+D751", "U+D752", "U+D753", "U+D754", "U+D755",
            "U+D756", "U+D757", "U+D758", "U+D759", "U+D75A", "U+D75B",
            "U+D75C", "U+D75D", "U+D75E", "U+D75F", "U+D760", "U+D761",
            "U+D762", "U+D763", "U+D764", "U+D765", "U+D766", "U+D767",
            "U+D768", "U+D769", "U+D76A", "U+D76B">>,
          << "U+D76C", "U+D76D", "U+D76E", "U+D76F", "U+D770", "U+D771",
            "U+D772", "U+D773", "U+D774", "U+D775", "U+D776", "U+D777",
            "U+D778", "U+D779", "U+D77A", "U+D77B", "U+D77C", "U+D77D",
            "U+D77E", "U+D77F", "U+D780", "U+D781", "U+D782", "U+D783",
            "U+D784", "U+D785", "U+D786", "U+D787">>,
          << "U+D788", "U+D789", "U+D78A", "U+D78B", "U+D78C", "U+D78D",
            "U+D78E", "U+D78F", "U+D790", "U+D791", "U+D792", "U+D793",
            "U+D794", "U+D795", "U+D796", "U+D797", "U+D798", "U+D799",
            "U+D79A", "U+D79B", "U+D79C", "U+D79D", "U+D79E", "U+D79F",
            "U+D7A0", "U+D7A1", "U+D7A2", "U+D7A3">> >> >>

HangulSyllable ==
    {HangulSyllables[l][v][t] : l \in 1..19, v \in 1..21, t \in 1..28}

HangulDecomposition(c) ==
    LET i == CHOOSE i \in (1..19) \X (1..21) \X (1..28) :
                 HangulSyllables[i[1]][i[2]][i[3]] = c
    IN  IF i[3] = 1 THEN <<HangulL[i[1]], HangulV[i[2]]>>
        ELSE <<HangulL[i[1]], HangulV[i[2]], HangulT[i[3] - 1]>>

\* the decomposition of one character
Decomposition(c) ==
    IF c \in HangulSyllable THEN HangulDecomposition(c)
    ELSE IF c \in DOMAIN NFKDForm THEN NFKDForm[c]
    ELSE <<c>>

\* unicodedata.combining(c) of the characters where it is not 0: the
\* canonical combining classes, each with its characters
CombiningClasses ==
    { <<1, { "U+0334", "U+0335", "U+0336", "U+0337", "U+0338", "U+1CD4",
            "U+1CE2", "U+1CE3", "U+1CE4", "U+1CE5", "U+1CE6", "U+1CE7",
            "U+1CE8", "U+20D2", "U+20D3", "U+20D8", "U+20D9", "U+20DA",
            "U+20E5", "U+20E6", "U+20EA", "U+20EB", "U+10A39", "U+16AF0",
            "U+16AF1", "U+16AF2", "U+16AF3", "U+16AF4", "U+1BC9E", "U+1D167",
            "U+1D168", "U+1D169"}>>,
      <<6, { "U+16FF0", "U+16FF1"}>>,
      <<7, { "U+093C", "U+09BC", "U+0A3C", "U+0ABC", "U+0B3C", "U+0C3C",
            "U+0CBC", "U+1037", "U+1B34", "U+1BE6", "U+1C37", "U+A9B3",
            "U+110BA", "U+11173", "U+111CA", "U+11236", "U+112E9", "U+1133B",
            "U+1133C", "U+11446", "U+114C3", "U+115C0", "U+116B7", "U+1183A",
            "U+11943", "U+11D42", "U+1E94A"}>>,
      <<8, { "U+3099", "U+309A"}>>,
      <<9, { "U+094D", "U+09CD", "U+0A4D", "U+0ACD", "U+0B4D", "U+0BCD",
            "U+0C4D", "U+0CCD", "U+0D3B", "U+0D3C", "U+0D4D", "U+0DCA",
            "U+0E3A", "U+0EBA", "U+0F84", "U+1039", "U+103A", "U+1714",
            "U+1715", "U+1734", "U+17D2", "U+1A60", "U+1B44", "U+1BAA",
            "U+1BAB", "U+1BF2", "U+1BF3", "U+2D7F", "U+A806", "U+A82C",
            "U+A8C4", "U+A953", "U+A9C0", "U+AAF6", "U+ABED", "U+10A3F",
            "U+11046", "U+11070", "U+1107F", "U+110B9", "U+11133", "U+11134",
            "U+111C0", "U+11235", "U+112EA", "U+1134D", "U+11442", "U+114C2",
            "U+115BF", "U+1163F", "U+116B6", "U+1172B", "U+11839", "U+1193D",
            "U+1193E", "U+119E0", "U+11A34", "U+11A47", "U+11A99", "U+11C3F",
            "U+11D44", "U+11D45", "U+11D97"}>>,
      <<10, { "U+05B0"}>>,
      <<11, { "U+05B1"}>>,
      <<12, { "U+05B2"}>>,
      <<13, { "U+05B3"}>>,
      <<14, { "U+05B4"}>>,
      <<15, { "U+05B5"}>>,
      <<16, { "U+05B6"}>>,
      <<17, { "U+05B7"}>>,
      <<18, { "U+05B8", "U+05C7"}>>,
      <<19, { "U+05B9", "U+05BA"}>>,
      <<20, { "U+05BB"}>>,
      <<21, { "U+05BC"}>>,
      <<22, { "U+05BD"}>>,
      <<23, { "U+05BF"}>>,
      <<24, { "U+05C1"}>>,
      <<25, { "U+05C2"}>>,
      <<26, { "U+FB1E"}>>,
      <<27, { "U+064B", "U+08F0"}>>,
      <<28, { "U+064C", "U+08F1"}>>,
      <<29, { "U+064D", "U+08F2"}>>,
      <<30, { "U+0618", "U+064E"}>>,
      <<31, { "U+0619", "U+064F"}>>,
      <<32, { "U+061A", "U+0650"}>>,
      <<33, { "U+0651"}>>,
      <<34, { "U+0652"}>>,
      <<35, { "U+0670"}>>,
      <<36, { "U+0711"}>>,
      <<84, { "U+0C55"}>>,
      <<91, { "U+0C56"}>>,
      <<103, { "U+0E38", "U+0E39"}>>,
      <<107, { "U+0E48", "U+0E49", "U+0E4A", "U+0E4B"}>>,
      <<118, { "U+0EB8", "U+0EB9"}>>,
      <<122, { "U+0EC8", "U+0EC9", "U+0ECA", "U+0ECB"}>>,
      <<129, { "U+0F71"}>>,
      <<130, { "U+0F72", "U+0F7A", "U+0F7B", "U+0F7C", "U+0F7D", "U+0F80"}>>,
      <<132, { "U+0F74"}>>,
      <<202, { "U+0321", "U+0322", "U+0327", "U+0328", "U+1DD0"}>>,
      <<214, { "U+1DCE"}>>,
      <<216, { "U+031B", "U+0F39", "U+1D165", "U+1D166", "U+1D16E", "U+1D16F",
            "U+1D170", "U+1D171", "U+1D172"}>>,
      <<218, { "U+1DFA", "U+302A"}>>,
      <<220, { "U+0316", "U+0317", "U+0318", "U+0319", "U+031C", "U+031D",
            "U+031E", "U+031F", "U+0320", "U+0323", "U+0324", "U+0325",
            "U+0326", "U+0329", "U+032A", "U+032B", "U+032C", "U+032D",
            "U+032E", "U+032F", "U+0330", "U+0331", "U+0332", "U+0333",
            "U+0339", "U+033A", "U+033B", "U+033C", "U+0347", "U+0348",
            "U+0349", "U+034D", "U+034E", "U+0353", "U+0354", "U+0355",
            "U+0356", "U+0359", "U+035A", "U+0591", "U+0596", "U+059B",
            "U+05A2", "U+05A3", "U+05A4", "U+05A5", "U+05A6", "U+05A7",
            "U+05AA", "U+05C5", "U+0655", "U+0656", "U+065C", "U+065F",
            "U+06E3", "U+06EA", "U+06ED", "U+0731", "U+0734", "U+0737",
            "U+0738", "U+0739", "U+073B", "U+073C", "U+073E", "U+0742",
            "U+0744", "U+0746", "U+0748", "U+07F2", "U+07FD", "U+0859",
            "U+085A", "U+085B", "U+0899", "U+089A", "U+089B", "U+08CF",
            "U+08D0", "U+08D1", "U+08D2", "U+08D3", "U+08E3", "U+08E6",
            "U+08E9", "U+08ED", "U+08EE", "U+08EF", "U+08F6", "U+08F9",
            "U+08FA", "U+0952", "U+0F18", "U+0F19", "U+0F35", "U+0F37",
            "U+0FC6", "U+108D", "U+193B", "U+1A18", "U+1A7F", "U+1AB5",
            "U+1AB6", "U+1AB7", "U+1AB8", "U+1AB9", "U+1ABA", "U+1ABD",
            "U+1ABF", "U+1AC0", "U+1AC3", "U+1AC4", "U+1ACA", "U+1B6C",
            "U+1CD5", "U+1CD6", "U+1CD7", "U+1CD8", "U+1CD9", "U+1CDC",
            "U+1CDD", "U+1CDE", "U+1CDF", "U+1CED", "U+1DC2", "U+1DCA",
            "U+1DCF", "U+1DF9", "U+1DFD", "U+1DFF", "U+20E8", "U+20EC",
            "U+20ED", "U+20EE", "U+20EF", "U+A92B", "U+A92C", "U+A92D",
            "U+AAB4", "U+FE27", "U+FE28", "U+FE29", "U+FE2A", "U+FE2B",
            "U+FE2C", "U+FE2D", "U+101FD", "U+102E0", "U+10A0D", "U+10A3A",
            "U+10AE6", "U+10F46", "U+10F47", "U+10F4B", "U+10F4D", "U+10F4E",
            "U+10F4F", "U+10F50", "U+10F83", "U+10F85", "U+1D17B", "U+1D17C",
            "U+1D17D", "U+1D17E", "U+1D17F", "U+1D180", "U+1D181", "U+1D182",
            "U+1D18A", "U+1D18B", "U+1E8D0", "U+1E8D1", "U+1E8D2", "U+1E8D3",
            "U+1E8D4", "U+1E8D5", "U+1E8D6"}>>,
      <<222, { "U+059A", "U+05AD", "U+1939", "U+302D"}>>,
      <<224, { "U+302E", "U+302F"}>>,
      <<226, { "U+1D16D"}>>,
      <<228, { "U+05AE", "U+18A9", "U+1DF7", "U+1DF8", "U+302B"}>>,
      <<230, { "U+0300", "U+0301", "U+0302", "U+0303", "U+0304", "U+0305",
            "U+0306", "U+0307", "U+0308", "U+0309", "U+030A", "U+030B",
            "U+030C", "U+030D", "U+030E", "U+030F", "U+0310", "U+0311",
            "U+0312", "U+0313", "U+0314", "U+033D", "U+033E", "U+033F",
            "U+0340", "U+0341", "U+0342", "U+0343", "U+0344", "U+0346",
            "U+034A", "U+034B", "U+034C", "U+0350", "U+0351", "U+0352",
            "U+0357", "U+035B", "U+0363", "U+0364", "U+0365", "U+0366",
            "U+0367", "U+0368", "U+0369", "U+036A", "U+036B", "U+036C",
            "U+036D", "U+036E", "U+036F", "U+0483", "U+0484", "U+0485",
            "U+0486", "U+0487", "U+0592", "U+0593", "U+0594", "U+0595",
            "U+0597", "U+0598", "U+0599", "U+059C", "U+059D", "U+059E",
            "U+059F", "U+05A0", "U+05A1", "U+05A8", "U+05A9", "U+05AB",
            "U+05AC", "U+05AF", "U+05C4", "U+0610", "U+0611", "U+0612",
            "U+0613", "U+0614", "U+0615", "U+0616", "U+0617", "U+0653",
            "U+0654", "U+0657", "U+0658", "U+0659", "U+065A", "U+065B",
            "U+065D", "U+065E", "U+06D6", "U+06D7", "U+06D8", "U+06D9",
            "U+06DA", "U+06DB", "U+06DC", "U+06DF", "U+06E0", "U+06E1",
            "U+06E2", "U+06E4", "U+06E7", "U+06E8", "U+06EB", "U+06EC",
            "U+0730", "U+0732", "U+0733", "U+0735", "U+0736", "U+073A",
            "U+073D", "U+073F", "U+0740", "U+0741", "U+0743", "U+0745",
            "U+0747", "U+0749", "U+074A", "U+07EB", "U+07EC", "U+07ED",
            "U+07EE", "U+07EF", "U+07F0", "U+07F1", "U+07F3", "U+0816",
            "U+0817", "U+0818", "U+0819", "U+081B", "U+081C", "U+081D",
            "U+081E", "U+081F", "U+0820", "U+0821", "U+0822", "U+0823",
            "U+0825", "U+0826", "U+0827", "U+0829", "U+082A", "U+082B",
            "U+082C", "U+082D", "U+0898", "U+089C", "U+089D", "U+089E",
            "U+089F", "U+08CA", "U+08CB", "U+08CC", "U+08CD", "U+08CE",
            "U+08D4", "U+08D5", "U+08D6", "U+08D7", "U+08D8", "U+08D9",
            "U+08DA", "U+08DB", "U+08DC", "U+08DD", "U+08DE", "U+08DF",
            "U+08E0", "U+08E1", "U+08E4", "U+08E5", "U+08E7", "U+08E8",
            "U+08EA", "U+08EB", "U+08EC", "U+08F3", "U+08F4", "U+08F5",
            "U+08F7", "U+08F8", "U+08FB", "U+08FC", "U+08FD", "U+08FE",
            "U+08FF", "U+0951", "U+0953", "U+0954", "U+09FE", "U+0F82",
            "U+0F83", "U+0F86", "U+0F87", "U+135D", "U+135E", "U+135F",
            "U+17DD", "U+193A", "U+1A17", "U+1A75", "U+1A76", "U+1A77",
            "U+1A78", "U+1A79", "U+1A7A", "U+1A7B", "U+1A7C", "U+1AB0",
            "U+1AB1", "U+1AB2", "U+1AB3", "U+1AB4", "U+1ABB", "U+1ABC",
            "U+1AC1", "U+1AC2", "U+1AC5", "U+1AC6", "U+1AC7", "U+1AC8",
            "U+1AC9", "U+1ACB", "U+1ACC", "U+1ACD", "U+1ACE", "U+1B6B",
            "U+1B6D", "U+1B6E", "U+1B6F", "U+1B70", "U+1B71", "U+1B72",
            "U+1B73", "U+1CD0", "U+1CD1", "U+1CD2", "U+1CDA", "U+1CDB",
            "U+1CE0", "U+1CF4", "U+1CF8", "U+1CF9", "U+1DC0", "U+1DC1",
            "U+1DC3", "U+1DC4", "U+1DC5", "U+1DC6", "U+1DC7", "U+1DC8",
            "U+1DC9", "U+1DCB", "U+1DCC", "U+1DD1", "U+1DD2", "U+1DD3",
            "U+1DD4", "U+1DD5", "U+1DD6", "U+1DD7", "U+1DD8", "U+1DD9",
            "U+1DDA", "U+1DDB", "U+1DDC", "U+1DDD", "U+1DDE", "U+1DDF",
            "U+1DE0", "U+1DE1", "U+1DE2", "U+1DE3", "U+1DE4", "U+1DE5",
            "U+1DE6", "U+1DE7", "U+1DE8", "U+1DE9", "U+1DEA", "U+1DEB",
            "U+1DEC", "U+1DED", "U+1DEE", "U+1DEF", "U+1DF0", "U+1DF1",
            "U+1DF2", "U+1DF3", "U+1DF4", "U+1DF5", "U+1DFB", "U+1DFE",
            "U+20D0", "U+20D1", "U+20D4", "U+20D5", "U+20D6", "U+20D7",
            "U+20DB", "U+20DC", "U+20E1", "U+20E7", "U+20E9", "U+20F0",
            "U+2CEF", "U+2CF0", "U+2CF1", "U+2DE0", "U+2DE1", "U+2DE2",
            "U+2DE3", "U+2DE4", "U+2DE5", "U+2DE6", "U+2DE7", "U+2DE8",
            "U+2DE9", "U+2DEA", "U+2DEB", "U+2DEC", "U+2DED", "U+2DEE",
            "U+2DEF", "U+2DF0", "U+2DF1", "U+2DF2", "U+2DF3", "U+2DF4",
            "U+2DF5", "U+2DF6", "U+2DF7", "U+2DF8", "U+2DF9", "U+2DFA",
            "U+2DFB", "U+2DFC", "U+2DFD", "U+2DFE", "U+2DFF", "U+A66F",
            "U+A674", "U+A675", "U+A676", "U+A677", "U+A678", "U+A679",
            "U+A67A", "U+A67B", "U+A67C", "U+A67D", "U+A69E", "U+A69F",
            "U+A6F0", "U+A6F1", "U+A8E0", "U+A8E1", "U+A8E2", "U+A8E3",
            "U+A8E4", "U+A8E5", "U+A8E6", "U+A8E7", "U+A8E8", "U+A8E9",
            "U+A8EA", "U+A8EB", "U+A8EC", "U+A8ED", "U+A8EE", "U+A8EF",
            "U+A8F0", "U+A8F1", "U+AAB0", "U+AAB2", "U+AAB3", "U+AAB7",
            "U+AAB8", "U+AABE", "U+AABF", "U+AAC1", "U+FE20", "U+FE21",
            "U+FE22", "U+FE23", "U+FE24", "U+FE25", "U+FE26", "U+FE2E",
            "U+FE2F", "U+10376", "U+10377", "U+10378", "U+10379", "U+1037A",
            "U+10A0F", "U+10A38", "U+10AE5", "U+10D24", "U+10D25", "U+10D26",
            "U+10D27", "U+10EAB", "U+10EAC", "U+10F48", "U+10F49", "U+10F4A",
            "U+10F4C", "U+10F82", "U+10F84", "U+11100", "U+11101", "U+11102",
            "U+11366", "U+11367", "U+11368", "U+11369", "U+1136A", "U+1136B",
            "U+1136C", "U+11370", "U+11371", "U+11372", "U+11373", "U+11374",
            "U+1145E", "U+16B30", "U+16B31", "U+16B32", "U+16B33", "U+16B34",
            "U+16B35", "U+16B36", "U+1D185", "U+1D186", "U+1D187", "U+1D188",
            "U+1D189", "U+1D1AA", "U+1D1AB", "U+1D1AC", "U+1D1AD", "U+1D242",
            "U+1D243", "U+1D244", "U+1E000", "U+1E001", "U+1E002", "U+1E003",
            "U+1E004", "U+1E005", "U+1E006", "U+1E008", "U+1E009", "U+1E00A",
            "U+1E00B", "U+1E00C", "U+1E00D", "U+1E00E", "U+1E00F", "U+1E010",
            "U+1E011", "U+1E012", "U+1E013", "U+1E014", "U+1E015", "U+1E016",
            "U+1E017", "U+1E018", "U+1E01B", "U+1E01C", "U+1E01D", "U+1E01E",
            "U+1E01F", "U+1E020", "U+1E021", "U+1E023", "U+1E024", "U+1E026",
            "U+1E027", "U+1E028", "U+1E029", "U+1E02A", "U+1E130", "U+1E131",
            "U+1E132", "U+1E133", "U+1E134", "U+1E135", "U+1E136", "U+1E2AE",
            "U+1E2EC", "U+1E2ED", "U+1E2EE", "U+1E2EF", "U+1E944", "U+1E945",
            "U+1E946", "U+1E947", "U+1E948", "U+1E949"}>>,
      <<232, { "U+0315", "U+031A", "U+0358", "U+1DF6", "U+302C"}>>,
      <<233, { "U+035C", "U+035F", "U+0362", "U+1DFC"}>>,
      <<234, { "U+035D", "U+035E", "U+0360", "U+0361", "U+1DCD"}>>,
      <<240, { "U+0345"}>> }

Combining == UNION {p[2] : p \in CombiningClasses}

CombiningClass(c) ==
    IF c \in Combining THEN (CHOOSE p \in CombiningClasses : c \in p[2])[1]
    ELSE 0

\* the canonical ordering: a combining mark moves in front of the marks of
\* a greater class that stand before it
RECURSIVE InsertMark(_, _)
InsertMark(s, c) ==
    IF s # <<>> /\ CombiningClass(c) # 0
                /\ CombiningClass(s[Len(s)]) > CombiningClass(c)
    THEN Append(InsertMark(SubSeq(s, 1, Len(s) - 1), c), s[Len(s)])
    ELSE Append(s, c)

RECURSIVE CanonicalOrder(_)
CanonicalOrder(s) ==
    IF s = <<>> THEN <<>>
    ELSE InsertMark(CanonicalOrder(SubSeq(s, 1, Len(s) - 1)), s[Len(s)])

\* unicodedata.normalize("NFKD", s)
NFKD(s) == CanonicalOrder(Flatten([i \in DOMAIN s |-> Decomposition(s[i])]))

\* the primary composites: first character, second character, composite
Compositions ==
    { <<"A", "U+0300", "U+00C0">>,
      <<"A", "U+0301", "U+00C1">>, <<"A", "U+0302", "U+00C2">>,
      <<"A", "U+0303", "U+00C3">>, <<"A", "U+0308", "U+00C4">>,
      <<"A", "U+030A", "U+00C5">>, <<"C", "U+0327", "U+00C7">>,
      <<"E", "U+0300", "U+00C8">>, <<"E", "U+0301", "U+00C9">>,
      <<"E", "U+0302", "U+00CA">>, <<"E", "U+0308", "U+00CB">>,
      <<"I", "U+0300", "U+00CC">>, <<"I", "U+0301", "U+00CD">>,
      <<"I", "U+0302", "U+00CE">>, <<"I", "U+0308", "U+00CF">>,
      <<"N", "U+0303", "U+00D1">>, <<"O", "U+0300", "U+00D2">>,
      <<"O", "U+0301", "U+00D3">>, <<"O", "U+0302", "U+00D4">>,
      <<"O", "U+0303", "U+00D5">>, <<"O", "U+0308", "U+00D6">>,
      <<"U", "U+0300", "U+00D9">>, <<"U", "U+0301", "U+00DA">>,
      <<"U", "U+0302", "U+00DB">>, <<"U", "U+0308", "U+00DC">>,
      <<"Y", "U+0301", "U+00DD">>, <<"a", "U+0300", "U+00E0">>,
      <<"a", "U+0301", "U+00E1">>, <<"a", "U+0302", "U+00E2">>,
      <<"a", "U+0303", "U+00E3">>, <<"a", "U+0308", "U+00E4">>,
      <<"a", "U+030A", "U+00E5">>, <<"c", "U+0327", "U+00E7">>,
      <<"e", "U+0300", "U+00E8">>, <<"e", "U+0301", "U+00E9">>,
      <<"e", "U+0302", "U+00EA">>, <<"e", "U+0308", "U+00EB">>,
      <<"i", "U+0300", "U+00EC">>, <<"i", "U+0301", "U+00ED">>,
      <<"i", "U+0302", "U+00EE">>, <<"i", "U+0308", "U+00EF">>,
      <<"n", "U+0303", "U+00F1">>, <<"o", "U+0300", "U+00F2">>,
      <<"o", "U+0301", "U+00F3">>, <<"o", "U+0302", "U+00F4">>,
      <<"o", "U+0303", "U+00F5">>, <<"o", "U+0308", "U+00F6">>,
      <<"u", "U+0300", "U+00F9">>, <<"u", "U+0301", "U+00FA">>,
      <<"u", "U+0302", "U+00FB">>, <<"u", "U+0308", "U+00FC">>,
      <<"y", "U+0301", "U+00FD">>, <<"y", "U+0308", "U+00FF">>,
      <<"A", "U+0304", "U+0100">>, <<"a", "U+0304", "U+0101">>,
      <<"A", "U+0306", "U+0102">>, <<"a", "U+0306", "U+0103">>,
      <<"A", "U+0328", "U+0104">>, <<"a", "U+0328", "U+0105">>,
      <<"C", "U+0301", "U+0106">>, <<"c", "U+0301", "U+0107">>,
      <<"C", "U+0302", "U+0108">>, <<"c", "U+0302", "U+0109">>,
      <<"C", "U+0307", "U+010A">>, <<"c", "U+0307", "U+010B">>,
      <<"C", "U+030C", "U+010C">>, <<"c", "U+030C", "U+010D">>,
      <<"D", "U+030C", "U+010E">>, <<"d", "U+030C", "U+010F">>,
      <<"E", "U+0304", "U+0112">>, <<"e", "U+0304", "U+0113">>,
      <<"E", "U+0306", "U+0114">>, <<"e", "U+0306", "U+0115">>,
      <<"E", "U+0307", "U+0116">>, <<"e", "U+0307", "U+0117">>,
      <<"E", "U+0328", "U+0118">>, <<"e", "U+0328", "U+0119">>,
      <<"E", "U+030C", "U+011A">>, <<"e", "U+030C", "U+011B">>,
      <<"G", "U+0302", "U+011C">>, <<"g", "U+0302", "U+011D">>,
      <<"G", "U+0306", "U+011E">>, <<"g", "U+0306", "U+011F">>,
      <<"G", "U+0307", "U+0120">>, <<"g", "U+0307", "U+0121">>,
      <<"G", "U+0327", "U+0122">>, <<"g", "U+0327", "U+0123">>,
      <<"H", "U+0302", "U+0124">>, <<"h", "U+0302", "U+0125">>,
      <<"I", "U+0303", "U+0128">>, <<"i", "U+0303", "U+0129">>,
      <<"I", "U+0304", "U+012A">>, <<"i", "U+0304", "U+012B">>,
      <<"I", "U+0306", "U+012C">>, <<"i", "U+0306", "U+012D">>,
      <<"I", "U+0328", "U+012E">>, <<"i", "U+0328", "U+012F">>,
      <<"I", "U+0307", "U+0130">>, <<"J", "U+0302", "U+0134">>,
      <<"j", "U+0302", "U+0135">>, <<"K", "U+0327", "U+0136">>,
      <<"k", "U+0327", "U+0137">>, <<"L", "U+0301", "U+0139">>,
      <<"l", "U+0301", "U+013A">>, <<"L", "U+0327", "U+013B">>,
      <<"l", "U+0327", "U+013C">>, <<"L", "U+030C", "U+013D">>,
      <<"l", "U+030C", "U+013E">>, <<"N", "U+0301", "U+0143">>,
      <<"n", "U+0301", "U+0144">>, <<"N", "U+0327", "U+0145">>,
      <<"n", "U+0327", "U+0146">>, <<"N", "U+030C", "U+0147">>,
      <<"n", "U+030C", "U+0148">>, <<"O", "U+0304", "U+014C">>,
      <<"o", "U+0304", "U+014D">>, <<"O", "U+0306", "U+014E">>,
      <<"o", "U+0306", "U+014F">>, <<"O", "U+030B", "U+0150">>,
      <<"o", "U+030B", "U+0151">>, <<"R", "U+0301", "U+0154">>,
      <<"r", "U+0301", "U+0155">>, <<"R", "U+0327", "U+0156">>,
      <<"r", "U+0327", "U+0157">>, <<"R", "U+030C", "U+0158">>,
      <<"r", "U+030C", "U+0159">>, <<"S", "U+0301", "U+015A">>,
      <<"s", "U+0301", "U+015B">>, <<"S", "U+0302", "U+015C">>,
      <<"s", "U+0302", "U+015D">>, <<"S", "U+0327", "U+015E">>,
      <<"s", "U+0327", "U+015F">>, <<"S", "U+030C", "U+0160">>,
      <<"s", "U+030C", "U+0161">>, <<"T", "U+0327", "U+0162">>,
      <<"t", "U+0327", "U+0163">>, <<"T", "U+030C", "U+0164">>,
      <<"t", "U+030C", "U+0165">>, <<"U", "U+0303", "U+0168">>,
      <<"u", "U+0303", "U+0169">>, <<"U", "U+0304", "U+016A">>,
      <<"u", "U+0304", "U+016B">>, <<"U", "U+0306", "U+016C">>,
      <<"u", "U+0306", "U+016D">>, <<"U", "U+030A", "U+016E">>,
      <<"u", "U+030A", "U+016F">>, <<"U", "U+030B", "U+0170">>,
      <<"u", "U+030B", "U+0171">>, <<"U", "U+0328", "U+0172">>,
      <<"u", "U+0328", "U+0173">>, <<"W", "U+0302", "U+0174">>,
      <<"w", "U+0302", "U+0175">>, <<"Y", "U+0302", "U+0176">>,
      <<"y", "U+0302", "U+0177">>, <<"Y", "U+0308", "U+0178">>,
      <<"Z", "U+0301", "U+0179">>, <<"z", "U+0301", "U+017A">>,
      <<"Z", "U+0307", "U+017B">>, <<"z", "U+0307", "U+017C">>,
      <<"Z", "U+030C", "U+017D">>, <<"z", "U+030C", "U+017E">>,
      <<"O", "U+031B", "U+01A0">>, <<"o", "U+031B", "U+01A1">>,
      <<"U", "U+031B", "U+01AF">>, <<"u", "U+031B", "U+01B0">>,
      <<"A", "U+030C", "U+01CD">>, <<"a", "U+030C", "U+01CE">>,
      <<"I", "U+030C", "U+01CF">>, <<"i", "U+030C", "U+01D0">>,
      <<"O", "U+030C", "U+01D1">>, <<"o", "U+030C", "U+01D2">>,
      <<"U", "U+030C", "U+01D3">>, <<"u", "U+030C", "U+01D4">>,
      <<"U+00DC", "U+0304", "U+01D5">>, <<"U+00FC", "U+0304", "U+01D6">>,
      <<"U+00DC", "U+0301", "U+01D7">>, <<"U+00FC", "U+0301", "U+01D8">>,
      <<"U+00DC", "U+030C", "U+01D9">>, <<"U+00FC", "U+030C", "U+01DA">>,
      <<"U+00DC", "U+0300", "U+01DB">>, <<"U+00FC", "U+0300", "U+01DC">>,
      <<"U+00C4", "U+0304", "U+01DE">>, <<"U+00E4", "U+0304", "U+01DF">>,
      <<"U+0226", "U+0304", "U+01E0">>, <<"U+0227", "U+0304", "U+01E1">>,
      <<"U+00C6", "U+0304", "U+01E2">>, <<"U+00E6", "U+0304", "U+01E3">>,
      <<"G", "U+030C", "U+01E6">>, <<"g", "U+030C", "U+01E7">>,
      <<"K", "U+030C", "U+01E8">>, <<"k", "U+030C", "U+01E9">>,
      <<"O", "U+0328", "U+01EA">>, <<"o", "U+0328", "U+01EB">>,
      <<"U+01EA", "U+0304", "U+01EC">>, <<"U+01EB", "U+0304", "U+01ED">>,
      <<"U+01B7", "U+030C", "U+01EE">>, <<"U+0292", "U+030C", "U+01EF">>,
      <<"j", "U+030C", "U+01F0">>, <<"G", "U+0301", "U+01F4">>,
      <<"g", "U+0301", "U+01F5">>, <<"N", "U+0300", "U+01F8">>,
      <<"n", "U+0300", "U+01F9">>, <<"U+00C5", "U+0301", "U+01FA">>,
      <<"U+00E5", "U+0301", "U+01FB">>, <<"U+00C6", "U+0301", "U+01FC">>,
      <<"U+00E6", "U+0301", "U+01FD">>, <<"U+00D8", "U+0301", "U+01FE">>,
      <<"U+00F8", "U+0301", "U+01FF">>, <<"A", "U+030F", "U+0200">>,
      <<"a", "U+030F", "U+0201">>, <<"A", "U+0311", "U+0202">>,
      <<"a", "U+0311", "U+0203">>, <<"E", "U+030F", "U+0204">>,
      <<"e", "U+030F", "U+0205">>, <<"E", "U+0311", "U+0206">>,
      <<"e", "U+0311", "U+0207">>, <<"I", "U+030F", "U+0208">>,
      <<"i", "U+030F", "U+0209">>, <<"I", "U+0311", "U+020A">>,
      <<"i", "U+0311", "U+020B">>, <<"O", "U+030F", "U+020C">>,
      <<"o", "U+030F", "U+020D">>, <<"O", "U+0311", "U+020E">>,
      <<"o", "U+0311", "U+020F">>, <<"R", "U+030F", "U+0210">>,
      <<"r", "U+030F", "U+0211">>, <<"R", "U+0311", "U+0212">>,
      <<"r", "U+0311", "U+0213">>, <<"U", "U+030F", "U+0214">>,
      <<"u", "U+030F", "U+0215">>, <<"U", "U+0311", "U+0216">>,
      <<"u", "U+0311", "U+0217">>, <<"S", "U+0326", "U+0218">>,
      <<"s", "U+0326", "U+0219">>, <<"T", "U+0326", "U+021A">>,
      <<"t", "U+0326", "U+021B">>, <<"H", "U+030C", "U+021E">>,
      <<"h", "U+030C", "U+021F">>, <<"A", "U+0307", "U+0226">>,
      <<"a", "U+0307", "U+0227">>, <<"E", "U+0327", "U+0228">>,
      <<"e", "U+0327", "U+0229">>, <<"U+00D6", "U+0304", "U+022A">>,
      <<"U+00F6", "U+0304", "U+022B">>, <<"U+00D5", "U+0304", "U+022C">>,
      <<"U+00F5", "U+0304", "U+022D">>, <<"O", "U+0307", "U+022E">>,
      <<"o", "U+0307", "U+022F">>, <<"U+022E", "U+0304", "U+0230">>,
      <<"U+022F", "U+0304", "U+0231">>, <<"Y", "U+0304", "U+0232">>,
      <<"y", "U+0304", "U+0233">>, <<"U+00A8", "U+0301", "U+0385">>,
      <<"U+0391", "U+0301", "U+0386">>, <<"U+0395", "U+0301", "U+0388">>,
      <<"U+0397", "U+0301", "U+0389">>, <<"U+0399", "U+0301", "U+038A">>,
      <<"U+039F", "U+0301", "U+038C">>, <<"U+03A5", "U+0301", "U+038E">>,
      <<"U+03A9", "U+0301", "U+038F">>, <<"U+03CA", "U+0301", "U+0390">>,
      <<"U+0399", "U+0308", "U+03AA">>, <<"U+03A5", "U+0308", "U+03AB">>,
      <<"U+03B1", "U+0301", "U+03AC">>, <<"U+03B5", "U+0301", "U+03AD">>,
      <<"U+03B7", "U+0301", "U+03AE">>, <<"U+03B9", "U+0301", "U+03AF">>,
      <<"U+03CB", "U+0301", "U+03B0">>, <<"U+03B9", "U+0308", "U+03CA">>,
      <<"U+03C5", "U+0308", "U+03CB">>, <<"U+03BF", "U+0301", "U+03CC">>,
      <<"U+03C5", "U+0301", "U+03CD">>, <<"U+03C9", "U+0301", "U+03CE">>,
      <<"U+03D2", "U+0301", "U+03D3">>, <<"U+03D2", "U+0308", "U+03D4">>,
      <<"U+0415", "U+0300", "U+0400">>, <<"U+0415", "U+0308", "U+0401">>,
      <<"U+0413", "U+0301", "U+0403">>, <<"U+0406", "U+0308", "U+0407">>,
      <<"U+041A", "U+0301", "U+040C">>, <<"U+0418", "U+0300", "U+040D">>,
      <<"U+0423", "U+0306", "U+040E">>, <<"U+0418", "U+0306", "U+0419">>,
      <<"U+0438", "U+0306", "U+0439">>, <<"U+0435", "U+0300", "U+0450">>,
      <<"U+0435", "U+0308", "U+0451">>, <<"U+0433", "U+0301", "U+0453">>,
      <<"U+0456", "U+0308", "U+0457">>, <<"U+043A", "U+0301", "U+045C">>,
      <<"U+0438", "U+0300", "U+045D">>, <<"U+0443", "U+0306", "U+045E">>,
      <<"U+0474", "U+030F", "U+0476">>, <<"U+0475", "U+030F", "U+0477">>,
      <<"U+0416", "U+0306", "U+04C1">>, <<"U+0436", "U+0306", "U+04C2">>,
      <<"U+0410", "U+0306", "U+04D0">>, <<"U+0430", "U+0306", "U+04D1">>,
      <<"U+0410", "U+0308", "U+04D2">>, <<"U+0430", "U+0308", "U+04D3">>,
      <<"U+0415", "U+0306", "U+04D6">>, <<"U+0435", "U+0306", "U+04D7">>,
      <<"U+04D8", "U+0308", "U+04DA">>, <<"U+04D9", "U+0308", "U+04DB">>,
      <<"U+0416", "U+0308", "U+04DC">>, <<"U+0436", "U+0308", "U+04DD">>,
      <<"U+0417", "U+0308", "U+04DE">>, <<"U+0437", "U+0308", "U+04DF">>,
      <<"U+0418", "U+0304", "U+04E2">>, <<"U+0438", "U+0304", "U+04E3">>,
      <<"U+0418", "U+0308", "U+04E4">>, <<"U+0438", "U+0308", "U+04E5">>,
      <<"U+041E", "U+0308", "U+04E6">>, <<"U+043E", "U+0308", "U+04E7">>,
      <<"U+04E8", "U+0308", "U+04EA">>, <<"U+04E9", "U+0308", "U+04EB">>,
      <<"U+042D", "U+0308", "U+04EC">>, <<"U+044D", "U+0308", "U+04ED">>,
      <<"U+0423", "U+0304", "U+04EE">>, <<"U+0443", "U+0304", "U+04EF">>,
      <<"U+0423", "U+0308", "U+04F0">>, <<"U+0443", "U+0308", "U+04F1">>,
      <<"U+0423", "U+030B", "U+04F2">>, <<"U+0443", "U+030B", "U+04F3">>,
      <<"U+0427", "U+0308", "U+04F4">>, <<"U+0447", "U+0308", "U+04F5">>,
      <<"U+042B", "U+0308", "U+04F8">>, <<"U+044B", "U+0308", "U+04F9">>,
      <<"U+0627", "U+0653", "U+0622">>, <<"U+0627", "U+0654", "U+0623">>,
      <<"U+0648", "U+0654", "U+0624">>, <<"U+0627", "U+0655", "U+0625">>,
      <<"U+064A", "U+0654", "U+0626">>, <<"U+06D5", "U+0654", "U+06C0">>,
      <<"U+06C1", "U+0654", "U+06C2">>, <<"U+06D2", "U+0654", "U+06D3">>,
      <<"U+0928", "U+093C", "U+0929">>, <<"U+0930", "U+093C", "U+0931">>,
      <<"U+0933", "U+093C", "U+0934">>, <<"U+09C7", "U+09BE", "U+09CB">>,
      <<"U+09C7", "U+09D7", "U+09CC">>, <<"U+0B47", "U+0B56", "U+0B48">>,
      <<"U+0B47", "U+0B3E", "U+0B4B">>, <<"U+0B47", "U+0B57", "U+0B4C">>,
      <<"U+0B92", "U+0BD7", "U+0B94">>, <<"U+0BC6", "U+0BBE", "U+0BCA">>,
      <<"U+0BC7", "U+0BBE", "U+0BCB">>, <<"U+0BC6", "U+0BD7", "U+0BCC">>,
      <<"U+0C46", "U+0C56", "U+0C48">>, <<"U+0CBF", "U+0CD5", "U+0CC0">>,
      <<"U+0CC6", "U+0CD5", "U+0CC7">>, <<"U+0CC6", "U+0CD6", "U+0CC8">>,
      <<"U+0CC6", "U+0CC2", "U+0CCA">>, <<"U+0CCA", "U+0CD5", "U+0CCB">>,
      <<"U+0D46", "U+0D3E", "U+0D4A">>, <<"U+0D47", "U+0D3E", "U+0D4B">>,
      <<"U+0D46", "U+0D57", "U+0D4C">>, <<"U+0DD9", "U+0DCA", "U+0DDA">>,
      <<"U+0DD9", "U+0DCF", "U+0DDC">>, <<"U+0DDC", "U+0DCA", "U+0DDD">>,
      <<"U+0DD9", "U+0DDF", "U+0DDE">>, <<"U+1025", "U+102E", "U+1026">>,
      <<"U+1B05", "U+1B35", "U+1B06">>, <<"U+1B07", "U+1B35", "U+1B08">>,
      <<"U+1B09", "U+1B35", "U+1B0A">>, <<"U+1B0B", "U+1B35", "U+1B0C">>,
      <<"U+1B0D", "U+1B35", "U+1B0E">>, <<"U+1B11", "U+1B35", "U+1B12">>,
      <<"U+1B3A", "U+1B35", "U+1B3B">>, <<"U+1B3C", "U+1B35", "U+1B3D">>,
      <<"U+1B3E", "U+1B35", "U+1B40">>, <<"U+1B3F", "U+1B35", "U+1B41">>,
      <<"U+1B42", "U+1B35", "U+1B43">>, <<"A", "U+0325", "U+1E00">>,
      <<"a", "U+0325", "U+1E01">>, <<"B", "U+0307", "U+1E02">>,
      <<"b", "U+0307", "U+1E03">>, <<"B", "U+0323", "U+1E04">>,
      <<"b", "U+0323", "U+1E05">>, <<"B", "U+0331", "U+1E06">>,
      <<"b", "U+0331", "U+1E07">>, <<"U+00C7", "U+0301", "U+1E08">>,
      <<"U+00E7", "U+0301", "U+1E09">>, <<"D", "U+0307", "U+1E0A">>,
      <<"d", "U+0307", "U+1E0B">>, <<"D", "U+0323", "U+1E0C">>,
      <<"d", "U+0323", "U+1E0D">>, <<"D", "U+0331", "U+1E0E">>,
      <<"d", "U+0331", "U+1E0F">>, <<"D", "U+0327", "U+1E10">>,
      <<"d", "U+0327", "U+1E11">>, <<"D", "U+032D", "U+1E12">>,
      <<"d", "U+032D", "U+1E13">>, <<"U+0112", "U+0300", "U+1E14">>,
      <<"U+0113", "U+0300", "U+1E15">>, <<"U+0112", "U+0301", "U+1E16">>,
      <<"U+0113", "U+0301", "U+1E17">>, <<"E", "U+032D", "U+1E18">>,
      <<"e", "U+032D", "U+1E19">>, <<"E", "U+0330", "U+1E1A">>,
      <<"e", "U+0330", "U+1E1B">>, <<"U+0228", "U+0306", "U+1E1C">>,
      <<"U+0229", "U+0306", "U+1E1D">>, <<"F", "U+0307", "U+1E1E">>,
      <<"f", "U+0307", "U+1E1F">>, <<"G", "U+0304", "U+1E20">>,
      <<"g", "U+0304", "U+1E21">>, <<"H", "U+0307", "U+1E22">>,
      <<"h", "U+0307", "U+1E23">>, <<"H", "U+0323", "U+1E24">>,
      <<"h", "U+0323", "U+1E25">>, <<"H", "U+0308", "U+1E26">>,
      <<"h", "U+0308", "U+1E27">>, <<"H", "U+0327", "U+1E28">>,
      <<"h", "U+0327", "U+1E29">>, <<"H", "U+032E", "U+1E2A">>,
      <<"h", "U+032E", "U+1E2B">>, <<"I", "U+0330", "U+1E2C">>,
      <<"i", "U+0330", "U+1E2D">>, <<"U+00CF", "U+0301", "U+1E2E">>,
      <<"U+00EF", "U+0301", "U+1E2F">>, <<"K", "U+0301", "U+1E30">>,
      <<"k", "U+0301", "U+1E31">>, <<"K", "U+0323", "U+1E32">>,
      <<"k", "U+0323", "U+1E33">>, <<"K", "U+0331", "U+1E34">>,
      <<"k", "U+0331", "U+1E35">>, <<"L", "U+0323", "U+1E36">>,
      <<"l", "U+0323", "U+1E37">>, <<"U+1E36", "U+0304", "U+1E38">>,
      <<"U+1E37", "U+0304", "U+1E39">>, <<"L", "U+0331", "U+1E3A">>,
      <<"l", "U+0331", "U+1E3B">>, <<"L", "U+032D", "U+1E3C">>,
      <<"l", "U+032D", "U+1E3D">>, <<"M", "U+0301", "U+1E3E">>,
      <<"m", "U+0301", "U+1E3F">>, <<"M", "U+0307", "U+1E40">>,
      <<"m", "U+0307", "U+1E41">>, <<"M", "U+0323", "U+1E42">>,
      <<"m", "U+0323", "U+1E43">>, <<"N", "U+0307", "U+1E44">>,
      <<"n", "U+0307", "U+1E45">>, <<"N", "U+0323", "U+1E46">>,
      <<"n", "U+0323", "U+1E47">>, <<"N", "U+0331", "U+1E48">>,
      <<"n", "U+0331", "U+1E49">>, <<"N", "U+032D", "U+1E4A">>,
      <<"n", "U+032D", "U+1E4B">>, <<"U+00D5", "U+0301", "U+1E4C">>,
      <<"U+00F5", "U+0301", "U+1E4D">>, <<"U+00D5", "U+0308", "U+1E4E">>,
      <<"U+00F5", "U+0308", "U+1E4F">>, <<"U+014C", "U+0300", "U+1E50">>,
      <<"U+014D", "U+0300", "U+1E51">>, <<"U+014C", "U+0301", "U+1E52">>,
      <<"U+014D", "U+0301", "U+1E53">>, <<"P", "U+0301", "U+1E54">>,
      <<"p", "U+0301", "U+1E55">>, <<"P", "U+0307", "U+1E56">>,
      <<"p", "U+0307", "U+1E57">>, <<"R", "U+0307", "U+1E58">>,
      <<"r", "U+0307", "U+1E59">>, <<"R", "U+0323", "U+1E5A">>,
      <<"r", "U+0323", "U+1E5B">>, <<"U+1E5A", "U+0304", "U+1E5C">>,
      <<"U+1E5B", "U+0304", "U+1E5D">>, <<"R", "U+0331", "U+1E5E">>,
      <<"r", "U+0331", "U+1E5F">>, <<"S", "U+0307", "U+1E60">>,
      <<"s", "U+0307", "U+1E61">>, <<"S", "U+0323", "U+1E62">>,
      <<"s", "U+0323", "U+1E63">>, <<"U+015A", "U+0307", "U+1E64">>,
      <<"U+015B", "U+0307", "U+1E65">>, <<"U+0160", "U+0307", "U+1E66">>,
      <<"U+0161", "U+0307", "U+1E67">>, <<"U+1E62", "U+0307", "U+1E68">>,
      <<"U+1E63", "U+0307", "U+1E69">>, <<"T", "U+0307", "U+1E6A">>,
      <<"t", "U+0307", "U+1E6B">>, <<"T", "U+0323", "U+1E6C">>,
      <<"t", "U+0323", "U+1E6D">>, <<"T", "U+0331", "U+1E6E">>,
      <<"t", "U+0331", "U+1E6F">>, <<"T", "U+032D", "U+1E70">>,
      <<"t", "U+032D", "U+1E71">>, <<"U", "U+0324", "U+1E72">>,
      <<"u", "U+0324", "U+1E73">>, <<"U", "U+0330", "U+1E74">>,
      <<"u", "U+0330", "U+1E75">>, <<"U", "U+032D", "U+1E76">>,
      <<"u", "U+032D", "U+1E77">>, <<"U+0168", "U+0301", "U+1E78">>,
      <<"U+0169", "U+0301", "U+1E79">>, <<"U+016A", "U+0308", "U+1E7A">>,
      <<"U+016B", "U+0308", "U+1E7B">>, <<"V", "U+0303", "U+1E7C">>,
      <<"v", "U+0303", "U+1E7D">>, <<"V", "U+0323", "U+1E7E">>,
      <<"v", "U+0323", "U+1E7F">>, <<"W", "U+0300", "U+1E80">>,
      <<"w", "U+0300", "U+1E81">>, <<"W", "U+0301", "U+1E82">>,
      <<"w", "U+0301", "U+1E83">>, <<"W", "U+0308", "U+1E84">>,
      <<"w", "U+0308", "U+1E85">>, <<"W", "U+0307", "U+1E86">>,
      <<"w", "U+0307", "U+1E87">>, <<"W", "U+0323", "U+1E88">>,
      <<"w", "U+0323", "U+1E89">>, <<"X", "U+0307", "U+1E8A">>,
      <<"x", "U+0307", "U+1E8B">>, <<"X", "U+0308", "U+1E8C">>,
      <<"x", "U+0308", "U+1E8D">>, <<"Y", "U+0307", "U+1E8E">>,
      <<"y", "U+0307", "U+1E8F">>, <<"Z", "U+0302", "U+1E90">>,
      <<"z", "U+0302", "U+1E91">>, <<"Z", "U+0323", "U+1E92">>,
      <<"z", "U+0323", "U+1E93">>, <<"Z", "U+0331", "U+1E94">>,
      <<"z", "U+0331", "U+1E95">>, <<"h", "U+0331", "U+1E96">>,
      <<"t", "U+0308", "U+1E97">>, <<"w", "U+030A", "U+1E98">>,
      <<"y", "U+030A", "U+1E99">>, <<"U+017F", "U+0307", "U+1E9B">>,
      <<"A", "U+0323", "U+1EA0">>, <<"a", "U+0323", "U+1EA1">>,
      <<"A", "U+0309", "U+1EA2">>, <<"a", "U+0309", "U+1EA3">>,
      <<"U+00C2", "U+0301", "U+1EA4">>, <<"U+00E2", "U+0301", "U+1EA5">>,
      <<"U+00C2", "U+0300", "U+1EA6">>, <<"U+00E2", "U+0300", "U+1EA7">>,
      <<"U+00C2", "U+0309", "U+1EA8">>, <<"U+00E2", "U+0309", "U+1EA9">>,
      <<"U+00C2", "U+0303", "U+1EAA">>, <<"U+00E2", "U+0303", "U+1EAB">>,
      <<"U+1EA0", "U+0302", "U+1EAC">>, <<"U+1EA1", "U+0302", "U+1EAD">>,
      <<"U+0102", "U+0301", "U+1EAE">>, <<"U+0103", "U+0301", "U+1EAF">>,
      <<"U+0102", "U+0300", "U+1EB0">>, <<"U+0103", "U+0300", "U+1EB1">>,
      <<"U+0102", "U+0309", "U+1EB2">>, <<"U+0103", "U+0309", "U+1EB3">>,
      <<"U+0102", "U+0303", "U+1EB4">>, <<"U+0103", "U+0303", "U+1EB5">>,
      <<"U+1EA0", "U+0306", "U+1EB6">>, <<"U+1EA1", "U+0306", "U+1EB7">>,
      <<"E", "U+0323", "U+1EB8">>, <<"e", "U+0323", "U+1EB9">>,
      <<"E", "U+0309", "U+1EBA">>, <<"e", "U+0309", "U+1EBB">>,
      <<"E", "U+0303", "U+1EBC">>, <<"e", "U+0303", "U+1EBD">>,
      <<"U+00CA", "U+0301", "U+1EBE">>, <<"U+00EA", "U+0301", "U+1EBF">>,
      <<"U+00CA", "U+0300", "U+1EC0">>, <<"U+00EA", "U+0300", "U+1EC1">>,
      <<"U+00CA", "U+0309", "U+1EC2">>, <<"U+00EA", "U+0309", "U+1EC3">>,
      <<"U+00CA", "U+0303", "U+1EC4">>, <<"U+00EA", "U+0303", "U+1EC5">>,
      <<"U+1EB8", "U+0302", "U+1EC6">>, <<"U+1EB9", "U+0302", "U+1EC7">>,
      <<"I", "U+0309", "U+1EC8">>, <<"i", "U+0309", "U+1EC9">>,
      <<"I", "U+0323", "U+1ECA">>, <<"i", "U+0323", "U+1ECB">>,
      <<"O", "U+0323", "U+1ECC">>, <<"o", "U+0323", "U+1ECD">>,
      <<"O", "U+0309", "U+1ECE">>, <<"o", "U+0309", "U+1ECF">>,
      <<"U+00D4", "U+0301", "U+1ED0">>, <<"U+00F4", "U+0301", "U+1ED1">>,
      <<"U+00D4", "U+0300", "U+1ED2">>, <<"U+00F4", "U+0300", "U+1ED3">>,
      <<"U+00D4", "U+0309", "U+1ED4">>, <<"U+00F4", "U+0309", "U+1ED5">>,
      <<"U+00D4", "U+0303", "U+1ED6">>, <<"U+00F4", "U+0303", "U+1ED7">>,
      <<"U+1ECC", "U+0302", "U+1ED8">>, <<"U+1ECD", "U+0302", "U+1ED9">>,
      <<"U+01A0", "U+0301", "U+1EDA">>, <<"U+01A1", "U+0301", "U+1EDB">>,
      <<"U+01A0", "U+0300", "U+1EDC">>, <<"U+01A1", "U+0300", "U+1EDD">>,
      <<"U+01A0", "U+0309", "U+1EDE">>, <<"U+01A1", "U+0309", "U+1EDF">>,
      <<"U+01A0", "U+0303", "U+1EE0">>, <<"U+01A1", "U+0303", "U+1EE1">>,
      <<"U+01A0", "U+0323", "U+1EE2">>, <<"U+01A1", "U+0323", "U+1EE3">>,
      <<"U", "U+0323", "U+1EE4">>, <<"u", "U+0323", "U+1EE5">>,
      <<"U", "U+0309", "U+1EE6">>, <<"u", "U+0309", "U+1EE7">>,
      <<"U+01AF", "U+0301", "U+1EE8">>, <<"U+01B0", "U+0301", "U+1EE9">>,
      <<"U+01AF", "U+0300", "U+1EEA">>, <<"U+01B0", "U+0300", "U+1EEB">>,
      <<"U+01AF", "U+0309", "U+1EEC">>, <<"U+01B0", "U+0309", "U+1EED">>,
      <<"U+01AF", "U+0303", "U+1EEE">>, <<"U+01B0", "U+0303", "U+1EEF">>,
      <<"U+01AF", "U+0323", "U+1EF0">>, <<"U+01B0", "U+0323", "U+1EF1">>,
      <<"Y", "U+0300", "U+1EF2">>, <<"y", "U+0300", "U+1EF3">>,
      <<"Y", "U+0323", "U+1EF4">>, <<"y", "U+0323", "U+1EF5">>,
      <<"Y", "U+0309", "U+1EF6">>, <<"y", "U+0309", "U+1EF7">>,
      <<"Y", "U+0303", "U+1EF8">>, <<"y", "U+0303", "U+1EF9">>,
      <<"U+03B1", "U+0313", "U+1F00">>, <<"U+03B1", "U+0314", "U+1F01">>,
      <<"U+1F00", "U+0300", "U+1F02">>, <<"U+1F01", "U+0300", "U+1F03">>,
      <<"U+1F00", "U+0301", "U+1F04">>, <<"U+1F01", "U+0301", "U+1F05">>,
      <<"U+1F00", "U+0342", "U+1F06">>, <<"U+1F01", "U+0342", "U+1F07">>,
      <<"U+0391", "U+0313", "U+1F08">>, <<"U+0391", "U+0314", "U+1F09">>,
      <<"U+1F08", "U+0300", "U+1F0A">>, <<"U+1F09", "U+0300", "U+1F0B">>,
      <<"U+1F08", "U+0301", "U+1F0C">>, <<"U+1F09", "U+0301", "U+1F0D">>,
      <<"U+1F08", "U+0342", "U+1F0E">>, <<"U+1F09", "U+0342", "U+1F0F">>,
      <<"U+03B5", "U+0313", "U+1F10">>, <<"U+03B5", "U+0314", "U+1F11">>,
      <<"U+1F10", "U+0300", "U+1F12">>, <<"U+1F11", "U+0300", "U+1F13">>,
      <<"U+1F10", "U+0301", "U+1F14">>, <<"U+1F11", "U+0301", "U+1F15">>,
      <<"U+0395", "U+0313", "U+1F18">>, <<"U+0395", "U+0314", "U+1F19">>,
      <<"U+1F18", "U+0300", "U+1F1A">>, <<"U+1F19", "U+0300", "U+1F1B">>,
      <<"U+1F18", "U+0301", "U+1F1C">>, <<"U+1F19", "U+0301", "U+1F1D">>,
      <<"U+03B7", "U+0313", "U+1F20">>, <<"U+03B7", "U+0314", "U+1F21">>,
      <<"U+1F20", "U+0300", "U+1F22">>, <<"U+1F21", "U+0300", "U+1F23">>,
      <<"U+1F20", "U+0301", "U+1F24">>, <<"U+1F21", "U+0301", "U+1F25">>,
      <<"U+1F20", "U+0342", "U+1F26">>, <<"U+1F21", "U+0342", "U+1F27">>,
      <<"U+0397", "U+0313", "U+1F28">>, <<"U+0397", "U+0314", "U+1F29">>,
      <<"U+1F28", "U+0300", "U+1F2A">>, <<"U+1F29", "U+0300", "U+1F2B">>,
      <<"U+1F28", "U+0301", "U+1F2C">>, <<"U+1F29", "U+0301", "U+1F2D">>,
      <<"U+1F28", "U+0342", "U+1F2E">>, <<"U+1F29", "U+0342", "U+1F2F">>,
      <<"U+03B9", "U+0313", "U+1F30">>, <<"U+03B9", "U+0314", "U+1F31">>,
      <<"U+1F30", "U+0300", "U+1F32">>, <<"U+1F31", "U+0300", "U+1F33">>,
      <<"U+1F30", "U+0301", "U+1F34">>, <<"U+1F31", "U+0301", "U+1F35">>,
      <<"U+1F30", "U+0342", "U+1F36">>, <<"U+1F31", "U+0342", "U+1F37">>,
      <<"U+0399", "U+0313", "U+1F38">>, <<"U+0399", "U+0314", "U+1F39">>,
      <<"U+1F38", "U+0300", "U+1F3A">>, <<"U+1F39", "U+0300", "U+1F3B">>,
      <<"U+1F38", "U+0301", "U+1F3C">>, <<"U+1F39", "U+0301", "U+1F3D">>,
      <<"U+1F38", "U+0342", "U+1F3E">>, <<"U+1F39", "U+0342", "U+1F3F">>,
      <<"U+03BF", "U+0313", "U+1F40">>, <<"U+03BF", "U+0314", "U+1F41">>,
      <<"U+1F40", "U+0300", "U+1F42">>, <<"U+1F41", "U+0300", "U+1F43">>,
      <<"U+1F40", "U+0301", "U+1F44">>, <<"U+1F41", "U+0301", "U+1F45">>,
      <<"U+039F", "U+0313", "U+1F48">>, <<"U+039F", "U+0314", "U+1F49">>,
      <<"U+1F48", "U+0300", "U+1F4A">>, <<"U+1F49", "U+0300", "U+1F4B">>,
      <<"U+1F48", "U+0301", "U+1F4C">>, <<"U+1F49", "U+0301", "U+1F4D">>,
      <<"U+03C5", "U+0313", "U+1F50">>, <<"U+03C5", "U+0314", "U+1F51">>,
      <<"U+1F50", "U+0300", "U+1F52">>, <<"U+1F51", "U+0300", "U+1F53">>,
      <<"U+1F50", "U+0301", "U+1F54">>, <<"U+1F51", "U+0301", "U+1F55">>,
      <<"U+1F50", "U+0342", "U+1F56">>, <<"U+1F51", "U+0342", "U+1F57">>,
      <<"U+03A5", "U+0314", "U+1F59">>, <<"U+1F59", "U+0300", "U+1F5B">>,
      <<"U+1F59", "U+0301", "U+1F5D">>, <<"U+1F59", "U+0342", "U+1F5F">>,
      <<"U+03C9", "U+0313", "U+1F60">>, <<"U+03C9", "U+0314", "U+1F61">>,
      <<"U+1F60", "U+0300", "U+1F62">>, <<"U+1F61", "U+0300", "U+1F63">>,
      <<"U+1F60", "U+0301", "U+1F64">>, <<"U+1F61", "U+0301", "U+1F65">>,
      <<"U+1F60", "U+0342", "U+1F66">>, <<"U+1F61", "U+0342", "U+1F67">>,
      <<"U+03A9", "U+0313", "U+1F68">>, <<"U+03A9", "U+0314", "U+1F69">>,
      <<"U+1F68", "U+0300", "U+1F6A">>, <<"U+1F69", "U+0300", "U+1F6B">>,
      <<"U+1F68", "U+0301", "U+1F6C">>, <<"U+1F69", "U+0301", "U+1F6D">>,
      <<"U+1F68", "U+0342", "U+1F6E">>, <<"U+1F69", "U+0342", "U+1F6F">>,
      <<"U+03B1", "U+0300", "U+1F70">>, <<"U+03B5", "U+0300", "U+1F72">>,
      <<"U+03B7", "U+0300", "U+1F74">>, <<"U+03B9", "U+0300", "U+1F76">>,
      <<"U+03BF", "U+0300", "U+1F78">>, <<"U+03C5", "U+0300", "U+1F7A">>,
      <<"U+03C9", "U+0300", "U+1F7C">>, <<"U+1F00", "U+0345", "U+1F80">>,
      <<"U+1F01", "U+0345", "U+1F81">>, <<"U+1F02", "U+0345", "U+1F82">>,
      <<"U+1F03", "U+0345", "U+1F83">>, <<"U+1F04", "U+0345", "U+1F84">>,
      <<"U+1F05", "U+0345", "U+1F85">>, <<"U+1F06", "U+0345", "U+1F86">>,
      <<"U+1F07", "U+0345", "U+1F87">>, <<"U+1F08", "U+0345", "U+1F88">>,
      <<"U+1F09", "U+0345", "U+1F89">>, <<"U+1F0A", "U+0345", "U+1F8A">>,
      <<"U+1F0B", "U+0345", "U+1F8B">>, <<"U+1F0C", "U+0345", "U+1F8C">>,
      <<"U+1F0D", "U+0345", "U+1F8D">>, <<"U+1F0E", "U+0345", "U+1F8E">>,
      <<"U+1F0F", "U+0345", "U+1F8F">>, <<"U+1F20", "U+0345", "U+1F90">>,
      <<"U+1F21", "U+0345", "U+1F91">>, <<"U+1F22", "U+0345", "U+1F92">>,
      <<"U+1F23", "U+0345", "U+1F93">>, <<"U+1F24", "U+0345", "U+1F94">>,
      <<"U+1F25", "U+0345", "U+1F95">>, <<"U+1F26", "U+0345", "U+1F96">>,
      <<"U+1F27", "U+0345", "U+1F97">>, <<"U+1F28", "U+0345", "U+1F98">>,
      <<"U+1F29", "U+0345", "U+1F99">>, <<"U+1F2A", "U+0345", "U+1F9A">>,
      <<"U+1F2B", "U+0345", "U+1F9B">>, <<"U+1F2C", "U+0345", "U+1F9C">>,
      <<"U+1F2D", "U+0345", "U+1F9D">>, <<"U+1F2E", "U+0345", "U+1F9E">>,
      <<"U+1F2F", "U+0345", "U+1F9F">>, <<"U+1F60", "U+0345", "U+1FA0">>,
      <<"U+1F61", "U+0345", "U+1FA1">>, <<"U+1F62", "U+0345", "U+1FA2">>,
      <<"U+1F63", "U+0345", "U+1FA3">>, <<"U+1F64", "U+0345", "U+1FA4">>,
      <<"U+1F65", "U+0345", "U+1FA5">>, <<"U+1F66", "U+0345", "U+1FA6">>,
      <<"U+1F67", "U+0345", "U+1FA7">>, <<"U+1F68", "U+0345", "U+1FA8">>,
      <<"U+1F69", "U+0345", "U+1FA9">>, <<"U+1F6A", "U+0345", "U+1FAA">>,
      <<"U+1F6B", "U+0345", "U+1FAB">>, <<"U+1F6C", "U+0345", "U+1FAC">>,
      <<"U+1F6D", "U+0345", "U+1FAD">>, <<"U+1F6E", "U+0345", "U+1FAE">>,
      <<"U+1F6F", "U+0345", "U+1FAF">>, <<"U+03B1", "U+0306", "U+1FB0">>,
      <<"U+03B1", "U+0304", "U+1FB1">>, <<"U+1F70", "U+0345", "U+1FB2">>,
      <<"U+03B1", "U+0345", "U+1FB3">>, <<"U+03AC", "U+0345", "U+1FB4">>,
      <<"U+03B1", "U+0342", "U+1FB6">>, <<"U+1FB6", "U+0345", "U+1FB7">>,
      <<"U+0391", "U+0306", "U+1FB8">>, <<"U+0391", "U+0304", "U+1FB9">>,
      <<"U+0391", "U+0300", "U+1FBA">>, <<"U+0391", "U+0345", "U+1FBC">>,
      <<"U+00A8", "U+0342", "U+1FC1">>, <<"U+1F74", "U+0345", "U+1FC2">>,
      <<"U+03B7", "U+0345", "U+1FC3">>, <<"U+03AE", "U+0345", "U+1FC4">>,
      <<"U+03B7", "U+0342", "U+1FC6">>, <<"U+1FC6", "U+0345", "U+1FC7">>,
      <<"U+0395", "U+0300", "U+1FC8">>, <<"U+0397", "U+0300", "U+1FCA">>,
      <<"U+0397", "U+0345", "U+1FCC">>, <<"U+1FBF", "U+0300", "U+1FCD">>,
      <<"U+1FBF", "U+0301", "U+1FCE">>, <<"U+1FBF", "U+0342", "U+1FCF">>,
      <<"U+03B9", "U+0306", "U+1FD0">>, <<"U+03B9", "U+0304", "U+1FD1">>,
      <<"U+03CA", "U+0300", "U+1FD2">>, <<"U+03B9", "U+0342", "U+1FD6">>,
      <<"U+03CA", "U+0342", "U+1FD7">>, <<"U+0399", "U+0306", "U+1FD8">>,
      <<"U+0399", "U+0304", "U+1FD9">>, <<"U+0399", "U+0300", "U+1FDA">>,
      <<"U+1FFE", "U+0300", "U+1FDD">>, <<"U+1FFE", "U+0301", "U+1FDE">>,
      <<"U+1FFE", "U+0342", "U+1FDF">>, <<"U+03C5", "U+0306", "U+1FE0">>,
      <<"U+03C5", "U+0304", "U+1FE1">>, <<"U+03CB", "U+0300", "U+1FE2">>,
      <<"U+03C1", "U+0313", "U+1FE4">>, <<"U+03C1", "U+0314", "U+1FE5">>,
      <<"U+03C5", "U+0342", "U+1FE6">>, <<"U+03CB", "U+0342", "U+1FE7">>,
      <<"U+03A5", "U+0306", "U+1FE8">>, <<"U+03A5", "U+0304", "U+1FE9">>,
      <<"U+03A5", "U+0300", "U+1FEA">>, <<"U+03A1", "U+0314", "U+1FEC">>,
      <<"U+00A8", "U+0300", "U+1FED">>, <<"U+1F7C", "U+0345", "U+1FF2">>,
      <<"U+03C9", "U+0345", "U+1FF3">>, <<"U+03CE", "U+0345", "U+1FF4">>,
      <<"U+03C9", "U+0342", "U+1FF6">>, <<"U+1FF6", "U+0345", "U+1FF7">>,
      <<"U+039F", "U+0300", "U+1FF8">>, <<"U+03A9", "U+0300", "U+1FFA">>,
      <<"U+03A9", "U+0345", "U+1FFC">>, <<"U+2190", "U+0338", "U+219A">>,
      <<"U+2192", "U+0338", "U+219B">>, <<"U+2194", "U+0338", "U+21AE">>,
      <<"U+21D0", "U+0338", "U+21CD">>, <<"U+21D4", "U+0338", "U+21CE">>,
      <<"U+21D2", "U+0338", "U+21CF">>, <<"U+2203", "U+0338", "U+2204">>,
      <<"U+2208", "U+0338", "U+2209">>, <<"U+220B", "U+0338", "U+220C">>,
      <<"U+2223", "U+0338", "U+2224">>, <<"U+2225", "U+0338", "U+2226">>,
      <<"U+223C", "U+0338", "U+2241">>, <<"U+2243", "U+0338", "U+2244">>,
      <<"U+2245", "U+0338", "U+2247">>, <<"U+2248", "U+0338", "U+2249">>,
      <<"=", "U+0338", "U+2260">>, <<"U+2261", "U+0338", "U+2262">>,
      <<"U+224D", "U+0338", "U+226D">>, <<"<", "U+0338", "U+226E">>,
      <<">", "U+0338", "U+226F">>, <<"U+2264", "U+0338", "U+2270">>,
      <<"U+2265", "U+0338", "U+2271">>, <<"U+2272", "U+0338", "U+2274">>,
      <<"U+2273", "U+0338", "U+2275">>, <<"U+2276", "U+0338", "U+2278">>,
      <<"U+2277", "U+0338", "U+2279">>, <<"U+227A", "U+0338", "U+2280">>,
      <<"U+227B", "U+0338", "U+2281">>, <<"U+2282", "U+0338", "U+2284">>,
      <<"U+2283", "U+0338", "U+2285">>, <<"U+2286", "U+0338", "U+2288">>,
      <<"U+2287", "U+0338", "U+2289">>, <<"U+22A2", "U+0338", "U+22AC">>,
      <<"U+22A8", "U+0338", "U+22AD">>, <<"U+22A9", "U+0338", "U+22AE">>,
      <<"U+22AB", "U+0338", "U+22AF">>, <<"U+227C", "U+0338", "U+22E0">>,
      <<"U+227D", "U+0338", "U+22E1">>, <<"U+2291", "U+0338", "U+22E2">>,
      <<"U+2292", "U+0338", "U+22E3">>, <<"U+22B2", "U+0338", "U+22EA">>,
      <<"U+22B3", "U+0338", "U+22EB">>, <<"U+22B4", "U+0338", "U+22EC">>,
      <<"U+22B5", "U+0338", "U+22ED">>, <<"U+304B", "U+3099", "U+304C">>,
      <<"U+304D", "U+3099", "U+304E">>, <<"U+304F", "U+3099", "U+3050">>,
      <<"U+3051", "U+3099", "U+3052">>, <<"U+3053", "U+3099", "U+3054">>,
      <<"U+3055", "U+3099", "U+3056">>, <<"U+3057", "U+3099", "U+3058">>,
      <<"U+3059", "U+3099", "U+305A">>, <<"U+305B", "U+3099", "U+305C">>,
      <<"U+305D", "U+3099", "U+305E">>, <<"U+305F", "U+3099", "U+3060">>,
      <<"U+3061", "U+3099", "U+3062">>, <<"U+3064", "U+3099", "U+3065">>,
      <<"U+3066", "U+3099", "U+3067">>, <<"U+3068", "U+3099", "U+3069">>,
      <<"U+306F", "U+3099", "U+3070">>, <<"U+306F", "U+309A", "U+3071">>,
      <<"U+3072", "U+3099", "U+3073">>, <<"U+3072", "U+309A", "U+3074">>,
      <<"U+3075", "U+3099", "U+3076">>, <<"U+3075", "U+309A", "U+3077">>,
      <<"U+3078", "U+3099", "U+3079">>, <<"U+3078", "U+309A", "U+307A">>,
      <<"U+307B", "U+3099", "U+307C">>, <<"U+307B", "U+309A", "U+307D">>,
      <<"U+3046", "U+3099", "U+3094">>, <<"U+309D", "U+3099", "U+309E">>,
      <<"U+30AB", "U+3099", "U+30AC">>, <<"U+30AD", "U+3099", "U+30AE">>,
      <<"U+30AF", "U+3099", "U+30B0">>, <<"U+30B1", "U+3099", "U+30B2">>,
      <<"U+30B3", "U+3099", "U+30B4">>, <<"U+30B5", "U+3099", "U+30B6">>,
      <<"U+30B7", "U+3099", "U+30B8">>, <<"U+30B9", "U+3099", "U+30BA">>,
      <<"U+30BB", "U+3099", "U+30BC">>, <<"U+30BD", "U+3099", "U+30BE">>,
      <<"U+30BF", "U+3099", "U+30C0">>, <<"U+30C1", "U+3099", "U+30C2">>,
      <<"U+30C4", "U+3099", "U+30C5">>, <<"U+30C6", "U+3099", "U+30C7">>,
      <<"U+30C8", "U+3099", "U+30C9">>, <<"U+30CF", "U+3099", "U+30D0">>,
      <<"U+30CF", "U+309A", "U+30D1">>, <<"U+30D2", "U+3099", "U+30D3">>,
      <<"U+30D2", "U+309A", "U+30D4">>, <<"U+30D5", "U+3099", "U+30D6">>,
      <<"U+30D5", "U+309A", "U+30D7">>, <<"U+30D8", "U+3099", "U+30D9">>,
      <<"U+30D8", "U+309A", "U+30DA">>, <<"U+30DB", "U+3099", "U+30DC">>,
      <<"U+30DB", "U+309A", "U+30DD">>, <<"U+30A6", "U+3099", "U+30F4">>,
      <<"U+30EF", "U+3099", "U+30F7">>, <<"U+30F0", "U+3099", "U+30F8">>,
      <<"U+30F1", "U+3099", "U+30F9">>, <<"U+30F2", "U+3099", "U+30FA">>,
      <<"U+30FD", "U+3099", "U+30FE">>, <<"U+11099", "U+110BA", "U+1109A">>,
      <<"U+1109B", "U+110BA", "U+1109C">>,
      <<"U+110A5", "U+110BA", "U+110AB">>,
      <<"U+11131", "U+11127", "U+1112E">>,
      <<"U+11132", "U+11127", "U+1112F">>,
      <<"U+11347", "U+1133E", "U+1134B">>,
      <<"U+11347", "U+11357", "U+1134C">>,
      <<"U+114B9", "U+114BA", "U+114BB">>,
      <<"U+114B9", "U+114B0", "U+114BC">>,
      <<"U+114B9", "U+114BD", "U+114BE">>,
      <<"U+115B8", "U+115AF", "U+115BA">>,
      <<"U+115B9", "U+115AF", "U+115BB">>, <<"U+11935", "U+11930", "U+11938">> }

ComposablePairs == {<<p[1], p[2]>> : p \in Compositions}

HangulLV == {HangulSyllables[l][v][1] : l \in 1..19, v \in 1..21}

JamoIndex(jamo, c) == CHOOSE i \in DOMAIN jamo : jamo[i] = c

IsJamo(jamo, c) == \E i \in DOMAIN jamo : jamo[i] = c

\* the composite of a pair of characters, or None
Composite(a, b) ==
    IF IsJamo(HangulL, a) /\ IsJamo(HangulV, b)
    THEN Some(HangulSyllables[JamoIndex(HangulL, a)][JamoIndex(HangulV, b)][1])
    ELSE IF a \in HangulLV /\ IsJamo(HangulT, b)
    THEN LET i == CHOOSE i \in (1..19) \X (1..21) :
                      HangulSyllables[i[1]][i[2]][1] = a
         IN  Some(HangulSyllables[i[1]][i[2]][JamoIndex(HangulT, b) + 1])
    ELSE IF <<a, b>> \in ComposablePairs
    THEN Some((CHOOSE p \in Compositions : p[1] = a /\ p[2] = b)[3])
    ELSE None

\* the canonical composition of a decomposed and ordered text.  out is the
\* text composed so far, sp the place in it of the last starter (0: none
\* yet) and last the combining class of the last character kept after that
\* starter (0: none kept): a character composes with the starter unless a
\* character of its class or a greater one, or another starter, stands
\* between them
RECURSIVE Composed(_, _, _, _)
Composed(s, out, sp, last) ==
    IF s = <<>> THEN out
    ELSE LET Step(c, cc, comp) ==
                 IF comp # None /\ (last = 0 \/ last < cc)
                 THEN Composed(Tail(s), [out EXCEPT ![sp] = Get(comp)],
                               sp, last)
                 ELSE Composed(Tail(s), Append(out, c),
                               IF cc = 0 THEN Len(out) + 1 ELSE sp, cc)
         IN  Step(Head(s), CombiningClass(Head(s)),
                  IF sp = 0 THEN None ELSE Composite(out[sp], Head(s)))

\* unicodedata.normalize("NFKC", s)
NFKC(s) == Composed(NFKD(s), <<>>, 0, 0)

\* str.replace(old, new) for one-character old and new
Replace(s, old, new) == [i \in DOMAIN s |-> IF s[i] = old THEN new ELSE s[i]]

(***************************************************************************)
(* clean_odds                                                              *)
(***************************************************************************)
\* first index >= i of s that holds no decimal digit (Len(s) + 1 when the digits run
\* to the end): where the greedy \d+ that starts at i stops
RECURSIVE DigitsEnd(_, _)
DigitsEnd(s, i) ==
    IF i <= Len(s) /\ IsDigit(s[i]) THEN DigitsEnd(s, i + 1) ELSE i

\* value of a run of decimal digits, of whatever scripts
RECURSIVE DigitsVal(_)
DigitsVal(ds) ==
    IF ds = <<>> THEN 0
    ELSE 10 * DigitsVal(SubSeq(ds, 1, Len(ds) - 1)) + DigitVal(ds[Len(ds)])

RECURSIVE StripZeros(_)
StripZeros(ds) ==
    IF ds # <<>> /\ DigitVal(ds[Len(ds)]) = 0
    THEN StripZeros(SubSeq(ds, 1, Len(ds) - 1)) ELSE ds

\* float("<ip>.<fp>"): the decimal it denotes, as mantissa / 10^exp in
\* lowest decimal form, so that float("0.50") = float("0.5").  Two texts of
\* up to 15 significant digits give the same float exactly when they denote
\* the same decimal.
ToFloat(ip, fp) ==
    LET f == StripZeros(fp)
    IN  [mant |-> DigitsVal(ip \o f), exp |-> Len(f)]

\* int("<sign><digits>") with sign "+" or "-"
ToInt(sd) ==
    LET v == DigitsVal(SubSeq(sd, 2, Len(sd)))
    IN  IF sd[1] = "-" THEN 0 - v ELSE v

\* the three groups of  ^([OU])\s(\d+\.\d+)([+\U+2212]\d+)$  in t, or None.
\* i1, i2, i3 are where the three greedy digit runs stop; $ matches at the
\* end of t and before a final newline.
OddsMatch(t) ==
    LET Groups(n, i1, i2, i3) ==
            IF /\ n >= 2
               /\ t[1] \in {"O", "U"}
               /\ t[2] \in WhiteSpace
               /\ i1 > 3 /\ i1 <= n /\ t[i1] = "."
               /\ i2 > i1 + 1 /\ i2 <= n /\ t[i2] \in {"+", UMinus}
               /\ i3 > i2 + 1
               /\ (i3 = n + 1 \/ (i3 = n /\ t[n] = "\n"))
            THEN Some([tag   |-> t[1],
                       ip    |-> SubSeq(t, 3, i1 - 1),
                       fp    |-> SubSeq(t, i1 + 1, i2 - 1),
                       odds  |-> SubSeq(t, i2, i3 - 1)])
            ELSE None
        Third(i1, i2) == Groups(Len(t), i1, i2, DigitsEnd(t, i2 + 1))
        Second(i1) == Third(i1, DigitsEnd(t, i1 + 1))
    IN  Second(DigitsEnd(t, 3))

clean_odds(t) ==
    LET Result(match) ==
            IF match # None
            THEN <<Some(ToFloat(Get(match).ip, Get(match).fp)),
                   Some(ToInt(Replace(Get(match).odds, UMinus, "-")))>>
            ELSE <<None, None>>
    IN  Result(OddsMatch(t))

(***************************************************************************)
(* split_teams                                                             *)
(***************************************************************************)
RECURSIVE LStrip(_)
LStrip(s) == IF s # <<>> /\ s[1] \in WhiteSpace THEN LStrip(Tail(s)) ELSE s

RECURSIVE RStrip(_)
RStrip(s) ==
    IF s # <<>> /\ s[Len(s)] \in WhiteSpace
    THEN RStrip(SubSeq(s, 1, Len(s) - 1)) ELSE s

Strip(s) == RStrip(LStrip(s))

\* re.search(r'[a-z][A-Z]', s).start() + 1 as a 1-based index, or 0
TeamBreak(s) ==
    LET hits == {i \in 1..(Len(s) - 1) :
                    s[i] \in LowerCase /\ s[i + 1] \in UpperCase}
    IN  IF hits = {} THEN 0
        ELSE CHOOSE i \in hits : \A j \in hits : i <= j

\* returns <<away, home>>
split_teams(s) ==
    LET Teams(b, team1, team2) ==
            IF b # 0
            THEN <<Some(SubSeq(team1, 1, Len(team1) - 2)), Some(team2)>>
            ELSE <<None, None>>
        Cut(b) == Teams(b, Strip(SubSeq(s, 1, b)), Strip(SubSeq(s, b + 1, Len(s))))
    IN  Cut(TeamBreak(s))

(***************************************************************************)
(* Exceptions, the clock, the time zone and EventInfo                      *)
(***************************************************************************)
\* an exception leaving a function: its type and the line of utils.py that
\* raises it
Raise(type, line) == [raise |-> type, line |-> line]

Raises(r) == "raise" \in DOMAIN r

MinutesPerDay == 24 * 60

\* strftime("%Y-%m-%d ...") and strftime("%H:%M") of an instant in minutes
DateOf(t) == t \div MinutesPerDay

TimeOfDay(t) == t % MinutesPerDay

\* the UTC offset of local time at the instant u.  A zone is the offset in
\* force before and the offset in force from its switch instant.
OffsetAt(zone, u) == IF u < zone.switch THEN zone.before ELSE zone.after

\* time.localtime(u), as naive minutes
LocalTime(zone, u) == u + OffsetAt(zone, u)

\* datetime.datetime.now(): the naive local time
LocalNow(t, zone) == LocalTime(zone, t)

\* datetime.datetime.now().strftime("%Y-%m-%d %H:%M:%S")
StrfLocal(t, zone) ==
    [date |-> DateOf(LocalNow(t, zone)), time |-> TimeOfDay(LocalNow(t, zone))]

\* datetime.datetime.now(datetime.timezone.utc).strftime("%Y-%m-%d %H:%M")
StrfUtc(t) == [date |-> DateOf(t), time |-> TimeOfDay(t)]

\* the instant a naive local time t (fold 0) denotes, as datetime computes it
\* for astimezone: with a the offset found at t read as an instant and b the
\* offset found a day before t - a (or at t - a, if that does not read back
\* as t), it is t - a if that reads back as t and a = b, else t - b if that
\* reads back as t, else t - a if that does, else (t is in a gap) the later
\* of the two
Mktime(t, zone) ==
    LET Offset(u) == LocalTime(zone, u) - u
        Pick(a, b, u1, u2) ==
            IF LocalTime(zone, u1) = t /\ a = b THEN u1
            ELSE IF LocalTime(zone, u2) = t THEN u2
            ELSE IF LocalTime(zone, u1) = t THEN u1
            ELSE IF u1 >= u2 THEN u1 ELSE u2
        Second(a, b) == Pick(a, b, t - a, t - b)
        First(a) == Second(a, IF LocalTime(zone, t - a) = t
                              THEN Offset(t - a - MinutesPerDay)
                              ELSE Offset(t - a))
    IN  First(Offset(t))

\* time_obj.astimezone(datetime.timezone.utc) of a naive time_obj: minus the
\* offset the zone has at the instant time_obj denotes
Astimezone(t, zone) == t - OffsetAt(zone, Mktime(t, zone))

\* 1-based index of the first c in s, or 0
IndexOf(s, c) ==
    LET hits == {i \in DOMAIN s : s[i] = c}
    IN  IF hits = {} THEN 0 ELSE CHOOSE i \in hits : \A j \in hits : i <= j

\* str.split(sep) for a one-character sep
RECURSIVE Split(_, _)
Split(s, sep) ==
    LET i == IndexOf(s, sep)
    IN  IF i = 0 THEN <<s>>
        ELSE <<SubSeq(s, 1, i - 1)>> \o Split(SubSeq(s, i + 1, Len(s)), sep)

\* strptime(game_date + " " + time_str, "%Y-%m-%d %I:%M%p"), the clock part:
\* the blank of the format is \s+ and takes every leading whitespace; %I is
\* 1[0-2]|0[1-9]|[1-9], ASCII digits only; %M is [0-5]\d|\d, whose \d takes a
\* decimal digit of any script; %p is AM or PM in either case, and nothing
\* may follow.  12 AM is hour 0, 12 PM is hour 12.
ParseClock12(time_str) ==
    LET Time(hour, minute, pm) ==
            [hour   |-> IF pm THEN (IF hour # 12 THEN hour + 12 ELSE hour)
                        ELSE (IF hour = 12 THEN 0 ELSE hour),
             minute |-> minute]
        Fields(I, rest, nM) ==
            IF /\ \/ Len(I) = 1 /\ I[1] \in AsciiDigit \ {"0"}
                  \/ Len(I) = 2 /\ I[1] = "0" /\ I[2] \in AsciiDigit \ {"0"}
                  \/ Len(I) = 2 /\ I[1] = "1" /\ I[2] \in {"0", "1", "2"}
               /\ \/ nM = 2 /\ rest[1] \in {"0", "1", "2", "3", "4", "5"}
                           /\ IsDigit(rest[2])
                  \/ nM = 1 /\ IsDigit(rest[1])
               /\ rest[nM + 1] \in {"a", "A", "p", "P"}
               /\ rest[nM + 2] \in {"m", "M"}
            THEN Time(DigitsVal(I), DigitsVal(SubSeq(rest, 1, nM)),
                      rest[nM + 1] \in {"p", "P"})
            ELSE Raise("ValueError", 38)
        Clock(s, c) ==
            IF c = 0 THEN Raise("ValueError", 38)
            ELSE Fields(SubSeq(s, 1, c - 1), SubSeq(s, c + 1, Len(s)),
                        Len(s) - c - 2)
        Stripped(s) == Clock(s, IndexOf(s, ":"))
    IN  Stripped(LStrip(time_str))

\* EventInfo(home_team, away_team, game_time) with __post_init__, whose one
\* call of datetime.now() (line 34 or 36) returns t
EventInfo(home_team, away_team, game_time, t, zone) ==
    LET Info(game_date, time_obj) ==
            [home_team       |-> home_team,
             away_team       |-> away_team,
             game_time       |-> game_time,
             game_date       |-> game_date,
             game_time_local |-> TimeOfDay(time_obj),
             game_time_utc   |-> TimeOfDay(Astimezone(time_obj, zone))]
        Timed(game_date, clock) ==
            IF Raises(clock) THEN clock
            ELSE Info(game_date, game_date * MinutesPerDay
                                    + 60 * clock.hour + clock.minute)
        Dated(day, time_str) ==
            Timed(IF day = <<"Tomorrow">>
                  THEN DateOf(LocalNow(t, zone) + MinutesPerDay)
                  ELSE DateOf(LocalNow(t, zone)),
                  ParseClock12(time_str))
        Unpack(parts) ==
            IF Len(parts) # 2 THEN Raise("ValueError", 32)
            ELSE Dated(parts[1], parts[2])
    IN  Unpack(Split(game_time, " "))

(***************************************************************************)
(* Tables (pandas.DataFrame): a set of column names and a sequence of      *)
(* rows, each row a function from the column names to values               *)
(***************************************************************************)
\* pd.DataFrame()
EmptyDataFrame == [columns |-> {}, rows |-> <<>>]

\* table[col] = val
SetColumn(table, col, val) ==
    [columns |-> table.columns \cup {col},
     rows    |-> [i \in DOMAIN table.rows |->
                    [c \in (DOMAIN table.rows[i]) \cup {col} |->
                        IF c = col THEN val ELSE table.rows[i][c]]]]

\* pd.concat(ts) followed (where the code does it) by reset_index: the union
\* of the columns, the rows in order, a missing cell filled with NaN (None)
Concat(ts) ==
    LET cols == UNION {ts[i].columns : i \in DOMAIN ts}
        fill(r) == [c \in cols |-> IF c \in DOMAIN r THEN r[c] ELSE None]
        all  == Flatten([i \in DOMAIN ts |-> ts[i].rows])
    IN  [columns |-> cols, rows |-> [i \in DOMAIN all |-> fill(all[i])]]

\* s.split(sep)[0] for a three-character sep
SplitFirst3(s, sep) ==
    LET hits == {i \in 1..(Len(s) - 2) : SubSeq(s, i, i + 2) = sep}
    IN  IF hits = {} THEN s
        ELSE SubSeq(s, 1, (CHOOSE i \in hits : \A j \in hits : i <= j) - 1)

\* what lines 213-217 raise on one <tr>, or None: row.find('th') is None
\* without a <th>, row_data[0] and row_data[1] need two <td>
RowError(tr) ==
    IF tr.th = None THEN Some(Raise("AttributeError", 213))
    ELSE IF Len(tr.td) = 0 THEN Some(Raise("IndexError", 216))
    ELSE IF Len(tr.td) = 1 THEN Some(Raise("IndexError", 217))
    ELSE None

\* the two rows (Over, Under) get_match_table makes of one <tr>
PlayerRows(tr) ==
    LET Rows(player_name, over, under) ==
            << [player_name |-> player_name, over_under_total |-> over[1],
                odds |-> over[2], odd_type |-> "Over"],
               [player_name |-> player_name, over_under_total |-> under[1],
                odds |-> under[2], odd_type |-> "Under"] >>
    IN  Rows(SplitFirst3(Get(tr.th), <<"N", "e", "w">>),
             clean_odds(NFKC(tr.td[1])),
             clean_odds(NFKC(tr.td[2])))

\* the table rows with the header row kept
DataRows_withHeader(match_soup) == Get(match_soup.table)

\* find('table').find_all('tr')[1:]
DataRows(match_soup) ==
    SubSeq(Get(match_soup.table), 2, Len(Get(match_soup.table)))

\* the table of one event block, or what the first failing line raises
get_match_table(match_soup) ==
    LET Table(rows, bad) ==
            IF bad # {}
            THEN Get(RowError(rows[CHOOSE i \in bad : \A j \in bad : i <= j]))
            ELSE [columns |-> {"player_name", "over_under_total", "odds",
                               "odd_type"},
                  rows    |-> Flatten([i \in DOMAIN rows |-> PlayerRows(rows[i])])]
        Rows(rows) ==
            Table(rows, {i \in DOMAIN rows : RowError(rows[i]) # None})
    IN  IF match_soup.table = None THEN Raise("AttributeError", 207)
        ELSE Rows(DataRows(match_soup))

\* list(...)[-3:-1]: the last three elements but the last one
LastButOne(children) ==
    SubSeq(children,
           (IF Len(children) > 3 THEN Len(children) - 3 ELSE 0) + 1,
           Len(children) - 1)

get_event_info(event_soup, t, zone) ==
    LET Info(teams, game_time) ==
            EventInfo(teams[2], teams[1], game_time, t, zone)
        Texts(children) ==
            IF Len(children) = 0 THEN Raise("IndexError", 256)
            ELSE IF Len(children) = 1 THEN Raise("IndexError", 257)
            ELSE Info(split_teams(children[1]), children[2])
    IN  IF event_soup.div = None THEN Raise("AttributeError", 255)
        ELSE Texts(LastButOne(Get(event_soup.div)))

\* the body of the loop of get_subcategory_odds, lines 162-169: the table of
\* the event, or what the body raises
EventTable(event, t, zone) ==
    LET Filled(table, event_info) ==
            IF Raises(table) THEN table
            ELSE IF Raises(event_info) THEN event_info
            ELSE SetColumn(
                   SetColumn(
                     SetColumn(
                       SetColumn(
                         SetColumn(table, "home_team", event_info.home_team),
                         "away_team", event_info.away_team),
                       "game_time_local", event_info.game_time_local),
                     "game_time_utc", event_info.game_time_utc),
                   "game_date", event_info.game_date)
    IN  Filled(get_match_table(event), get_event_info(event, t, zone))

\* has the body of the loop that gave r called datetime.now()?  Only
\* EventInfo calls it, and of the lines that raise only line 38 comes after
\* the call.
ReadsClock(r) == ~Raises(r) \/ r.line = 38

\* the loop of lines 161-169 over the events left, the k-th of which finds
\* the clock at rs[k]: the tables made, the readings taken, and the exception
\* that ended the loop, if one did
RECURSIVE EventLoop(_, _, _, _, _)
EventLoop(events, rs, zone, made, used) ==
    LET Step(table, used1) ==
            IF Raises(table)
            THEN [tables |-> made, used |-> used1, raise |-> Some(table)]
            ELSE EventLoop(Tail(events), Tail(rs), zone,
                           Append(made, table), used1)
        Body(table) ==
            Step(table, IF ReadsClock(table) THEN Append(used, Head(rs))
                        ELSE used)
    IN  IF events = <<>>
        THEN [tables |-> made, used |-> used, raise |-> None]
        ELSE Body(EventTable(Head(events), Head(rs), zone))

(***************************************************************************)
(* Configuration (main.py) and the markup the sportsbook serves            *)
(***************************************************************************)
\* main.py: categories.  A name is a sequence of words and separators.
categories ==
    << [name |-> <<"batter", "-", "props">>,
        subs |-> << <<"home", "-", "runs">>,
                    <<"hits">>,
                    <<"total", "-", "bases">>,
                    <<"rbis">>,
                    <<"runs", "-", "scored">>,
                    <<"hits", "-", "+", "-", "runs", "-", "+", "-", "rbis">>,
                    <<"stolen", "-", "bases">>,
                    <<"strikeouts">>,
                    <<"singles">>,
                    <<"doubles">>,
                    <<"walks">> >>],
       [name |-> <<"pitcher", "-", "props">>,
        subs |-> << <<"strikeouts", "-", "thrown">>,
                    <<"outs", "-", "recorded">>,
                    <<"hits", "-", "allowed">>,
                    <<"earned", "-", "runs", "-", "allowed">>,
                    <<"walks", "-", "allowed">> >>] >>

\* how many subcategories of each main category the model gathers
MaxSubs == 3

\* the startup run and the scheduled runs
MaxRuns == 2

Min(a, b) == IF a <= b THEN a ELSE b

\* os.cpu_count() of the machine: one processor at the least
cpu_count == 1

\* ThreadPoolExecutor() at line 67: max_workers is
\* min(32, (os.cpu_count() or 1) + 4), five workers at the least
max_workers == Min(32, cpu_count + 4)

\* MainCategory.subcategories of main category c
Subcategories(c) ==
    SubSeq(categories[c].subs, 1, Min(MaxSubs, Len(categories[c].subs)))

\* urllib.parse.quote_plus and the server's decoding of it
QuotePlusChar(c) ==
    CASE c = "+" -> "%2B"
      [] c = " " -> "+"
      [] OTHER -> c

quote_plus(s) == [i \in DOMAIN s |-> QuotePlusChar(s[i])]

UnquotePlusChar(c) ==
    CASE c = "%2B" -> "+"
      [] c = "+" -> " "
      [] OTHER -> c

unquote_plus(s) == [i \in DOMAIN s |-> UnquotePlusChar(s[i])]

\* SubCategory.build_url: the query of the URL
build_url(main_category, sub_category) ==
    [category     |-> quote_plus(main_category),
     sub_category |-> quote_plus(sub_category)]

HeaderRow ==
    [th |-> Some(<<"P", "L", "A", "Y", "E", "R">>),
     td |-> << <<"O", "V", "E", "R">>, <<"U", "N", "D", "E", "R">> >>]

\* event blocks (div.sportsbook-event-accordion__wrapper): the texts of the
\* children of the first <div> (get_event_info reads the last three but the
\* last one: the teams and the game time) and the <tr> of the table
EventA ==
    [div   |-> Some(<< <<"M", "e", "t", "s", "a", "t", "C", "u", "b", "s">>,
                       <<"Today", " ", "7", ":", "0", "5", "P", "M">>,
                       <<>> >>),
     table |-> Some(<< HeaderRow,
                      [th |-> Some(<<"J", "u", "d", "g", "e">>),
                       td |-> << <<"O", " ", "0", ".", "5", "+", "8", "0", "0">>,
                                 <<"U", " ", "0", ".", "5", UMinus, "2", "0", "0", "0">> >>],
                      [th |-> Some(<<"S", "o", "t", "o", "N", "e", "w">>),
                       td |-> << <<"O", " ", "1", ".", "5", "U+FF0B", "2", "0">>,
                                 <<"U", " ", "1", ".", "5", "-", "2", "0">> >>],
                      [th |-> Some(<<"O", "h", "t", "a", "n", "i">>),
                       td |-> << <<"O", " ", "2", ".", "5", "+", "1", "1", "0">>,
                                 <<"U", " ", "2", ".", "5", UMinus, "1", "5", "0">> >>] >>)]

EventB ==
    [div   |-> Some(<< <<"L", "I", "V", "E">>,
                       <<"A", "s", "a", "t", "N", "Y", " ", "M", "e", "t", "s">>,
                       <<"Tomorrow", " ", "1", "2", ":", "1", "0", "A", "M">>,
                       <<>> >>),
     table |-> Some(<< HeaderRow,
                      [th |-> Some(<<"B", "e", "t", "t", "s">>),
                       td |-> << <<"O", " ", "0", ".", "5", "+", "1", "2", "0">>,
                                 <<"U", " ", "0", ".", "5", UMinus, "1", "6", "0">> >>],
                      [th |-> Some(<<"N", "e", "w", "m", "a", "n">>),
                       td |-> << <<"O", " ", "0", ".", "5", "+", "3", "0", "0">>,
                                 <<"O", " ", "a", "b", "c">> >>],
                      [th |-> Some(<<"T", "r", "o", "u", "t">>),
                       td |-> << <<"O", " ", "1", ".", "5", "+", "2", "5", "0">>,
                                 <<"U", " ", "1", ".", "5", UMinus, "3", "5", "0">> >>] >>)]

EventC ==
    [div   |-> Some(<< <<"T", "B", "D">>,
                       <<"Tomorrow", " ", "1", "2", ":", "4", "0", "P", "M">>,
                       <<>> >>),
     table |-> Some(<< HeaderRow,
                      [th |-> Some(<<"C", "o", "l", "e">>),
                       td |-> << <<"O", " ", "6", ".", "5", UMinus, "1", "1", "5">>,
                                 <<"U", " ", "6", ".", "5", "+", "1", "0", "5">> >>] >>)]

EventD ==
    [div   |-> Some(<< <<"R", "a", "y", "s", "a", "t", "Y", "a", "n", "k", "s">>,
                       <<"Today", " ", "1", ":", "0", "5", "P", "M">>,
                       <<>> >>),
     table |-> Some(<< HeaderRow,
                      [th |-> Some(<<"D", "i", "a", "z">>),
                       td |-> << <<"O", " ", "1", ".", "5", "+", "1", "3", "0">>,
                                 <<"U", " ", "1", ".", "5", UMinus, "1", "7", "0">> >>] >>)]

\* a game time strptime rejects: %I has no hour 0
EventBadClock ==
    [div   |-> Some(<< <<"R", "a", "y", "s", "a", "t", "Y", "a", "n", "k", "s">>,
                       <<"Today", " ", "0", ":", "3", "0", "A", "M">>,
                       <<>> >>),
     table |-> EventC.table]

\* a game time of three words
EventBadSplit ==
    [div   |-> Some(<< <<"R", "a", "y", "s", "a", "t", "Y", "a", "n", "k", "s">>,
                       <<"Today", " ", "7", ":", "0", "5", " ", "P", "M">>,
                       <<>> >>),
     table |-> EventC.table]

\* an event block without a <table>
EventNoTable ==
    [div   |-> EventA.div,
     table |-> None]

Sites == {"season", "malformed"}

\* the pages of the fixture, by name: the event blocks each holds
Markup(page) ==
    CASE page = "two_games"   -> <<EventA, EventB>>
      [] page = "one_game"    -> <<EventC>>
      [] page = "late_games"  -> <<EventC, EventD>>
      [] page = "bad_clock"   -> <<EventA, EventBadClock>>
      [] page = "bad_split"   -> <<EventBadSplit>>
      [] page = "no_table"    -> <<EventNoTable>>
      [] OTHER                -> <<>>

\* the page the site serves for a URL
Page(s, url) ==
    LET main == unquote_plus(url.category)
        sub  == unquote_plus(url.sub_category)
    IN  IF s = "malformed"
        THEN CASE main = categories[1].name /\ sub = categories[1].subs[1]
                    -> "bad_clock"
               [] main = categories[1].name /\ sub = categories[1].subs[2]
                    -> "bad_split"
               [] main = categories[1].name /\ sub = categories[1].subs[3]
                    -> "no_table"
               [] OTHER -> "no_games"
        ELSE CASE main = categories[1].name /\ sub = categories[1].subs[1]
                    -> "two_games"
               [] main = categories[1].name /\ sub = categories[1].subs[3]
                    -> "late_games"
               [] main = categories[2].name /\ sub = categories[2].subs[1]
                    -> "one_game"
               [] OTHER -> "no_games"

\* SubCategory.get_all_events on the soup of a page
get_all_events(soup) == Markup(soup)

ClockStart == 3 * MinutesPerDay + 23 * 60

ClockStep == 12 * 60

\* the instants at which the model reads the clock
ClockReadings == {ClockStart, ClockStart + ClockStep}

\* the zone of the machine: five hours west, going to four hours west (02:00
\* becomes 03:00) between the two readings of the clock
DaylightZone ==
    [before |-> 0 - 5 * 60, after |-> 0 - 4 * 60,
     switch |-> 4 * MinutesPerDay + 7 * 60]


(***************************************************************************)
(* The odds cells of one table row: get_match_table lines 215-219          *)
(***************************************************************************)
Cat3(a, b, c) == a \o b \o c

OddsTexts ==
    { Cat3(tag \o sep, ip \o dot \o fp, sign \o od \o tl) :
        tag \in {<<"O">>, <<"U">>, <<"X">>, <<>>},
        sep \in {<<" ">>, <<"U+00A0">>, <<"\f">>, <<>>},
        ip \in {<<"0">>, <<"1", "2">>, <<>>},
        dot \in {<<".">>, <<>>},
        fp \in {<<"5">>, <<"5", "0">>, <<"U+0665">>, <<>>},
        sign \in {<<"+">>, <<"-">>, <<UMinus>>, <<"U+FF0D">>, <<>>},
        od \in {<<"8", "0", "0">>, <<"2", "0">>, <<>>},
        tl \in {<<>>, <<"x">>} }

OddsInit ==
    /\ raw \in OddsTexts
    /\ text = None
    /\ cleaned = None
    /\ argv = [m |-> FALSE, s |-> FALSE]
    /\ args = None
    /\ site = "season"
    /\ tz = DaylightZone
    /\ now = 0
    /\ pc = "get_match_table"
    /\ runs = 0
    /\ cat = 1
    /\ df = <<None, None>>
    /\ tables = <<>>
    /\ submitted = 0
    /\ exc = None
    /\ task = <<>>
    /\ csv = None

Normalize ==
    /\ text = None
    /\ text' = Some(NFKC(raw))
    /\ UNCHANGED <<raw, cleaned>>
    /\ UNCHANGED progVars

CleanOdds ==
    /\ text # None
    /\ cleaned = None
    /\ cleaned' = Some(clean_odds(Get(text)))
    /\ UNCHANGED <<raw, text>>
    /\ UNCHANGED progVars

OddsNext == Normalize \/ CleanOdds

SpecOdds == OddsInit /\ [][OddsNext]_vars

(***************************************************************************)
(* The program                                                             *)
(***************************************************************************)
\* one subcategory of the category being gathered: the call
\* gather_odds_for_subcategory(category), its SubCategory object and (in
\* concurrent mode) its future.  st is where the call is: new, queued (its
\* future waits in the pool), then the line it is about to run
\* (driver_initializer, driver_get, implicitly_wait, page_source, time_local,
\* time_utc, driver_close, get_subcategory_odds, for_event: the head of the
\* loop of line 161), then done or failed.
NewTask ==
    [st          |-> "new",
     driver      |-> "none",     \* self.driver: none, open, closed
     url         |-> None,       \* self.url
     source      |-> None,       \* get_page_soup: source, the page by name
     time_local_ |-> None,       \* self._time_local
     time_utc_   |-> None,       \* self._time_utc
     soup        |-> None,       \* self.soup: the page parsed, by name
     tables      |-> <<>>,       \* get_subcategory_odds: tables, while the loop runs
     parsed_at   |-> <<>>,       \* what datetime.now() returned to each EventInfo
     result      |-> None,       \* the table returned
     exc         |-> None]       \* the exception raised

N == Len(Subcategories(cat))

Tasks == DOMAIN task

Finished(i) == task[i].st \in {"done", "failed"}

\* the calls a thread is running
Running == {i \in Tasks : task[i].st \notin {"new", "queued", "done", "failed"}}

\* argparse: -m is action='store_false' (default True), -s is
\* action='store_true' (default False)
parse_args(av) ==
    [multithread |-> ~av.m, save_to_csv |-> av.s]

multithread == Get(args).multithread

Init ==
    /\ raw = <<>>
    /\ text = None
    /\ cleaned = None
    /\ argv \in [m : BOOLEAN, s : BOOLEAN]
    /\ args = None
    /\ site \in Sites
    /\ tz = DaylightZone
    /\ now = ClockStart
    /\ pc = "main"
    /\ runs = 0
    /\ cat = 1
    /\ df = <<None, None>>
    /\ tables = <<>>
    /\ submitted = 0
    /\ exc = None
    /\ task = <<>>
    /\ csv = None

\* what a call of datetime.now() can return when the last call returned t:
\* the clock never runs backwards
Readings(t) == {r \in ClockReadings : r >= t}

\* what n calls of datetime.now() in a row can return
ReadingSeqs(t, n) ==
    {rs \in [1..n -> Readings(t)] : \A k \in 1..(n - 1) : rs[k] <= rs[k + 1]}

\* main.py lines 61-67 and 50-51: parse the command line, call get_odds
main ==
    /\ pc = "main"
    /\ args' = Some(parse_args(argv))
    /\ pc' = "get_odds"
    /\ UNCHANGED <<raw, text, cleaned, argv, site, tz, now, runs, cat, df,
                   tables, submitted, exc, task, csv>>

\* main.py lines 52-56: after time.sleep(60), and gather_freq minutes after
\* the last run, the scheduler calls get_odds again; the clock has moved on
\* (as far as the readings of the model go)
run_pending ==
    /\ pc = "sleep"
    /\ runs < MaxRuns
    /\ pc' = "get_odds"
    /\ now' = IF Readings(now + 1) # {} THEN ClockStart + ClockStep ELSE now
    /\ UNCHANGED <<raw, text, cleaned, argv, args, site, tz, runs, cat,
                   df, tables, submitted, exc, task, csv>>

\* get_odds lines 32-36: two fresh MainCategory objects, then gather_odds of
\* batter_props
get_odds ==
    /\ pc = "get_odds"
    /\ runs' = runs + 1
    /\ df' = <<None, None>>
    /\ cat' = 1
    /\ pc' = "gather"
    /\ UNCHANGED <<raw, text, cleaned, argv, args, site, tz, now, tables,
                   submitted, exc, task, csv>>

\* gather_odds lines 61-67 (and 75): tables = [], choose the mode
gather_odds ==
    /\ pc = "gather"
    /\ tables' = <<>>
    /\ submitted' = 0
    /\ task' = [i \in 1..N |-> NewTask]
    /\ pc' = IF multithread THEN "submit" ELSE "seq"
    /\ UNCHANGED <<raw, text, cleaned, argv, args, site, tz, now, runs, cat,
                   df, exc, csv>>

\* line 69: executor.submit(gather_odds_for_subcategory, category)
Submit ==
    /\ pc = "submit"
    /\ submitted' = submitted + 1
    /\ task' = [task EXCEPT ![submitted + 1].st = "queued"]
    /\ pc' = IF submitted + 1 = N THEN "collect" ELSE "submit"
    /\ UNCHANGED <<raw, text, cleaned, argv, args, site, tz, now, runs, cat,
                   df, tables, exc, csv>>

\* may the call for subcategory i begin?  Sequential mode runs the calls in
\* list order in the main thread; the pool hands the queued calls to its
\* workers first in, first out, as long as a worker is free.
MayStart(i) ==
    \/ /\ pc = "seq"
       /\ task[i].st = "new"
       /\ \A j \in 1..(i - 1) : task[j].st = "done"
    \/ /\ task[i].st = "queued"
       /\ \A j \in 1..(i - 1) : task[j].st # "queued"
       /\ Cardinality(Running) < max_workers

\* the exception of the call for subcategory i
Exception(r, i) ==
    [type |-> r.raise, line |-> r.line, sub_category |-> Subcategories(cat)[i]]

\* lines 62-63 and 102-103: a thread begins the call; next it calls
\* driver_initializer
gather_odds_for_subcategory(i) ==
    /\ MayStart(i)
    /\ task' = [task EXCEPT ![i].st = "driver_initializer"]
    /\ UNCHANGED <<raw, text, cleaned, argv, args, site, tz, now, pc, runs,
                   cat, df, tables, submitted, exc, csv>>

\* SubCategory.__init__ lines 104-108: driver_initializer() returns a session
\* and the URL is built, or it raises and the call ends with no session
driver_initializer(i) ==
    /\ i \in Tasks
    /\ task[i].st = "driver_initializer"
    /\ \/ task' = [task EXCEPT
                     ![i].st = "driver_get",
                     ![i].driver = "open",
                     ![i].url = Some(build_url(categories[cat].name,
                                               Subcategories(cat)[i]))]
       \/ task' = [task EXCEPT
                     ![i].st = "failed",
                     ![i].exc = Some(Exception(
                                   Raise("WebDriverException", 104), i))]
    /\ UNCHANGED <<raw, text, cleaned, argv, args, site, tz, now, pc, runs,
                   cat, df, tables, submitted, exc, csv>>

\* the call for subcategory i ends with the exception a driver call raised at
\* line; the exception leaves get_page_soup, __init__ and the call, and
\* nothing on that path touches self.driver
DriverRaises(i, line) ==
    task' = [task EXCEPT
               ![i].st = "failed",
               ![i].exc = Some(Exception(Raise("WebDriverException", line), i))]

\* get_page_soup line 187: self.driver.get(self.url) returns when the page is
\* loaded, or raises
driver_get(i) ==
    /\ i \in Tasks
    /\ task[i].st = "driver_get"
    /\ \/ task' = [task EXCEPT ![i].st = "implicitly_wait"]
       \/ DriverRaises(i, 187)
    /\ UNCHANGED <<raw, text, cleaned, argv, args, site, tz, now, pc, runs,
                   cat, df, tables, submitted, exc, csv>>

\* get_page_soup line 188: self.driver.implicitly_wait(10) returns, or raises
driver_implicitly_wait(i) ==
    /\ i \in Tasks
    /\ task[i].st = "implicitly_wait"
    /\ \/ task' = [task EXCEPT ![i].st = "page_source"]
       \/ DriverRaises(i, 188)
    /\ UNCHANGED <<raw, text, cleaned, argv, args, site, tz, now, pc, runs,
                   cat, df, tables, submitted, exc, csv>>

\* get_page_soup line 189: source = self.driver.page_source, or it raises
driver_page_source(i) ==
    /\ i \in Tasks
    /\ task[i].st = "page_source"
    /\ \/ task' = [task EXCEPT
                     ![i].st = "time_local",
                     ![i].source = Some(Page(site, Get(task[i].url)))]
       \/ DriverRaises(i, 189)
    /\ UNCHANGED <<raw, text, cleaned, argv, args, site, tz, now, pc, runs,
                   cat, df, tables, submitted, exc, csv>>

\* time_local without its cache: every read takes the clock again
time_local_uncached(self, t, zone) ==
    [self EXCEPT !.time_local_ = Some(StrfLocal(t, zone))]

\* the property time_local: the object after the read; the value read is its
\* time_local_
time_local(self, t, zone) ==
    IF self.time_local_ # None THEN self
    ELSE [self EXCEPT !.time_local_ = Some(StrfLocal(t, zone))]

\* the property time_utc
time_utc(self, t) ==
    IF self.time_utc_ # None THEN self
    ELSE [self EXCEPT !.time_utc_ = Some(StrfUtc(t))]

\* get_page_soup line 191: self.time_local
page_time_local(i) ==
    /\ i \in Tasks
    /\ task[i].st = "time_local"
    /\ \E t \in Readings(now) :
          /\ now' = t
          /\ task' = [task EXCEPT ![i] =
                        [time_local(task[i], t, tz) EXCEPT !.st = "time_utc"]]
    /\ UNCHANGED <<raw, text, cleaned, argv, args, site, tz, pc, runs, cat,
                   df, tables, submitted, exc, csv>>

\* get_page_soup line 192: self.time_utc
page_time_utc(i) ==
    /\ i \in Tasks
    /\ task[i].st = "time_utc"
    /\ \E t \in Readings(now) :
          /\ now' = t
          /\ task' = [task EXCEPT ![i] =
                        [time_utc(task[i], t) EXCEPT !.st = "driver_close"]]
    /\ UNCHANGED <<raw, text, cleaned, argv, args, site, tz, pc, runs, cat,
                   df, tables, submitted, exc, csv>>

\* get_page_soup lines 193-195 and __init__ line 109: the session is closed
\* and the source parsed into self.soup, or driver.close() raises
driver_close(i) ==
    /\ i \in Tasks
    /\ task[i].st = "driver_close"
    /\ \/ task' = [task EXCEPT
                     ![i].st = "get_subcategory_odds",
                     ![i].driver = "closed",
                     ![i].soup = task[i].source]
       \/ task' = [task EXCEPT
                     ![i].st = "failed",
                     ![i].exc = Some(Exception(
                                   Raise("WebDriverException", 193), i))]
    /\ UNCHANGED <<raw, text, cleaned, argv, args, site, tz, now, pc, runs,
                   cat, df, tables, submitted, exc, csv>>

\* str.replace("-", "_") of a category name
Label(name) == Replace(name, "-", "_")

\* get_subcategory_odds lines 171-178: the tables concatenated, labelled and
\* stamped with self.time_local and self.time_utc (t is where a reading of
\* the clock would find it); the call returns
ReturnTable(self, made, main_category, sub_category, t, zone) ==
    LET Stamped(s, d) ==
            [s EXCEPT
               !.st = "done",
               !.tables = <<>>,
               !.result = Some(SetColumn(
                                 SetColumn(d, "time_now_local",
                                           Get(s.time_local_)),
                                 "time_now_utc", Get(s.time_utc_)))]
    IN  Stamped(time_utc(time_local(self, t, zone), t),
                SetColumn(
                  SetColumn(Concat(made),
                            "main_category_type", Label(main_category)),
                  "sub_category_type", Label(sub_category)))

\* get_subcategory_odds lines 160-178 for subcategory i, from the first
\* event to the return: the loop over the events, the k-th of which finds
\* the clock at rs[k]; then either the exception of the loop, or the table
\* of lines 171-178
SubcategoryTable(self, events, i, main_category, sub_category, rs, zone) ==
    LET Ended(loop) ==
            IF loop.raise # None
            THEN [self EXCEPT !.parsed_at = loop.used,
                              !.st = "failed",
                              !.exc = Some(Exception(Get(loop.raise), i))]
            ELSE ReturnTable([self EXCEPT !.parsed_at = loop.used],
                             loop.tables, main_category, sub_category,
                             loop.used[Len(loop.used)], zone)
    IN  Ended(EventLoop(events, rs, zone, <<>>, <<>>))

\* what get_subcategory_odds returns when the page holds no event block
NoEventsTable == EmptyDataFrame

\* get_subcategory_odds lines 153-160: get_all_events, then either the early
\* return of lines 154-156 or tables = [] and on to the loop
get_subcategory_odds(i) ==
    /\ i \in Tasks
    /\ task[i].st = "get_subcategory_odds"
    /\ task' = IF Len(get_all_events(Get(task[i].soup))) = 0
               THEN [task EXCEPT ![i].result = Some(NoEventsTable),
                                 ![i].st = "done"]
               ELSE [task EXCEPT ![i].tables = <<>>,
                                 ![i].st = "for_event"]
    /\ UNCHANGED <<raw, text, cleaned, argv, args, site, tz, now, pc, runs,
                   cat, df, tables, submitted, exc, csv>>

\* one turn of the loop of lines 161-169 in the call self, the clock read
\* (if the body reads it) at t: table is what EventTable gave, a table to
\* append or the exception that ends the call
LoopBody(self, table, t, i) ==
    IF Raises(table)
    THEN [self EXCEPT !.parsed_at = IF ReadsClock(table) THEN Append(@, t)
                                    ELSE @,
                      !.tables = <<>>,
                      !.st = "failed",
                      !.exc = Some(Exception(table, i))]
    ELSE [self EXCEPT !.parsed_at = Append(@, t),
                      !.tables = Append(@, table)]

\* line 161, for event in all_events: the next event goes through the body
\* of the loop, its EventInfo reading the clock (another thread may read it
\* between two events); with no event left, lines 171-178
for_event(i) ==
    /\ i \in Tasks
    /\ task[i].st = "for_event"
    /\ LET all_events == get_all_events(Get(task[i].soup))
           Ended(table, t) ==
               /\ now' = IF ReadsClock(table) THEN t ELSE now
               /\ task' = [task EXCEPT ![i] = LoopBody(task[i], table, t, i)]
       IN  \/ /\ Len(task[i].tables) < Len(all_events)
              /\ \E t \in Readings(now) :
                    Ended(EventTable(all_events[Len(task[i].tables) + 1],
                                     t, tz), t)
           \/ /\ Len(task[i].tables) = Len(all_events)
              /\ now' = now
              /\ task' = [task EXCEPT ![i] =
                            ReturnTable(task[i], task[i].tables,
                                        categories[cat].name,
                                        Subcategories(cat)[i], now, tz)]
    /\ UNCHANGED <<raw, text, cleaned, argv, args, site, tz, pc, runs, cat,
                   df, tables, submitted, exc, csv>>

\* the loop waiting for the next future but taking the table of the first
Collect_firstFuture ==
    /\ pc = "collect"
    /\ LET k == Len(tables) + 1
       IN  /\ task[k].st = "done"
           /\ tables' = Append(tables, Get(task[1].result))
           /\ pc' = IF k = N THEN "shutdown" ELSE "collect"
    /\ UNCHANGED <<raw, text, cleaned, argv, args, site, tz, now, runs, cat, df,
                   submitted, exc, task, csv>>

\* lines 72-74: future.result() of the next future returns its table
Collect ==
    /\ pc = "collect"
    /\ LET k == Len(tables) + 1
       IN  /\ task[k].st = "done"
           /\ tables' = Append(tables, Get(task[k].result))
           /\ pc' = IF k = N THEN "shutdown" ELSE "collect"
    /\ UNCHANGED <<raw, text, cleaned, argv, args, site, tz, now, runs, cat,
                   df, submitted, exc, task, csv>>

\* the loop swallowing the exception of a future and going on without its
\* table
CollectRaise_swallowed ==
    /\ pc = "collect"
    /\ LET k == Len(tables) + 1
       IN  /\ task[k].st = "failed"
           /\ tables' = Append(tables, EmptyDataFrame)
           /\ pc' = IF k = N THEN "shutdown" ELSE "collect"
    /\ UNCHANGED <<raw, text, cleaned, argv, args, site, tz, now, runs, cat,
                   df, submitted, exc, task, csv>>

\* line 73: future.result() of the next future raises the call's exception,
\* which leaves the loop
CollectRaise ==
    /\ pc = "collect"
    /\ LET k == Len(tables) + 1
       IN  /\ task[k].st = "failed"
           /\ exc' = task[k].exc
           /\ pc' = "shutdown"
    /\ UNCHANGED <<raw, text, cleaned, argv, args, site, tz, now, runs, cat,
                   df, tables, submitted, task, csv>>

\* an exit that cancels the calls no worker has begun
Awaited_cancelQueued == {i \in Tasks : task[i].st # "queued"}

\* which calls the exit of "with ThreadPoolExecutor()" waits for:
\* shutdown(wait=True) cancels nothing and joins every worker
Awaited == Tasks

\* line 67: leaving the with block, with or without an exception
Shutdown ==
    /\ pc = "shutdown"
    /\ \A i \in Awaited : Finished(i)
    /\ pc' = IF exc = None THEN "concat" ELSE "crashed"
    /\ UNCHANGED <<raw, text, cleaned, argv, args, site, tz, now, runs, cat,
                   df, tables, submitted, exc, task, csv>>

\* line 76: the list comprehension has run every call
SeqDone ==
    /\ pc = "seq"
    /\ \A i \in Tasks : task[i].st = "done"
    /\ tables' = [i \in Tasks |-> Get(task[i].result)]
    /\ pc' = "concat"
    /\ UNCHANGED <<raw, text, cleaned, argv, args, site, tz, now, runs, cat,
                   df, submitted, exc, task, csv>>

\* line 76: a call raises; nothing catches it up to the top of the program
SeqRaise ==
    /\ pc = "seq"
    /\ \E i \in Tasks :
          /\ task[i].st = "failed"
          /\ exc' = task[i].exc
    /\ pc' = "crashed"
    /\ UNCHANGED <<raw, text, cleaned, argv, args, site, tz, now, runs, cat,
                   df, tables, submitted, task, csv>>

\* lines 77-80, then back in get_odds (lines 37-41)
ConcatTables ==
    /\ pc = "concat"
    /\ df' = [df EXCEPT ![cat] = Some(Concat(tables))]
    /\ IF cat = 1
       THEN cat' = 2 /\ pc' = "gather"
       ELSE cat' = cat /\ pc' = "add"
    /\ UNCHANGED <<raw, text, cleaned, argv, args, site, tz, now, runs,
                   tables, submitted, exc, task, csv>>

\* MainCategory.__add__
Add(a, b) == Concat(<<Get(a), Get(b)>>)

\* get_odds writing the file as soon as batter_props is gathered, and again
\* at the end
SaveCsv_early ==
    /\ \/ /\ pc = "add"
          /\ csv' = IF Get(args).save_to_csv
                    THEN Some([run |-> runs, table |-> Add(df[1], df[2])])
                    ELSE csv
          /\ pc' = "sleep"
       \/ /\ pc = "gather" /\ cat = 2
          /\ Get(args).save_to_csv
          /\ csv' = Some([run |-> runs, table |-> Get(df[1])])
          /\ pc' = pc
    /\ UNCHANGED <<raw, text, cleaned, argv, args, site, tz, now, runs, cat,
                   df, tables, submitted, exc, task>>

\* get_odds lines 43-47
SaveCsv ==
    /\ pc = "add"
    /\ csv' = IF Get(args).save_to_csv
              THEN Some([run |-> runs, table |-> Add(df[1], df[2])])
              ELSE csv
    /\ pc' = "sleep"
    /\ UNCHANGED <<raw, text, cleaned, argv, args, site, tz, now, runs, cat,
                   df, tables, submitted, exc, task>>

Next ==
    \/ main
    \/ run_pending
    \/ get_odds
    \/ gather_odds
    \/ Submit
    \/ \E i \in Tasks : gather_odds_for_subcategory(i)
    \/ \E i \in Tasks : driver_initializer(i)
    \/ \E i \in Tasks : driver_get(i)
    \/ \E i \in Tasks : driver_implicitly_wait(i)
    \/ \E i \in Tasks : driver_page_source(i)
    \/ \E i \in Tasks : page_time_local(i)
    \/ \E i \in Tasks : page_time_utc(i)
    \/ \E i \in Tasks : driver_close(i)
    \/ \E i \in Tasks : get_subcategory_odds(i)
    \/ \E i \in Tasks : for_event(i)
    \/ Collect
    \/ CollectRaise
    \/ Shutdown
    \/ SeqDone
    \/ SeqRaise
    \/ ConcatTables
    \/ SaveCsv

Spec == Init /\ [][Next]_vars


(***************************************************************************)
(* Properties                                                              *)
(***************************************************************************)
\* the output schema
ExpectedColumns ==
    {"player_name", "over_under_total", "odds", "odd_type", "home_team",
     "away_team", "game_time_local", "game_time_utc", "game_date",
     "main_category_type", "sub_category_type", "time_now_local",
     "time_now_utc"}

Failed == {i \in Tasks : task[i].st = "failed"}

FirstFailed == CHOOSE i \in Failed : \A j \in Failed : i <= j

\* the multiset of the rows of a table
RowBag(table) ==
    [r \in {table.rows[i] : i \in DOMAIN table.rows} |->
        Cardinality({i \in DOMAIN table.rows : table.rows[i] = r})]

\* the event blocks of the page of subcategory i of main category c
EventsOf(c, i) ==
    Markup(Page(site, build_url(categories[c].name, Subcategories(c)[i])))

\* C1: a subcategory whose page holds no event block returns a table with no
\* row and the full set of output columns.
C1_EmptyPageKeepsSchema ==
    \A i \in Tasks :
        (task[i].st = "done" /\ get_all_events(Get(task[i].soup)) = <<>>)
        => /\ Get(task[i].result).rows = <<>>
           /\ Get(task[i].result).columns = ExpectedColumns

\* C2: once the fetch of a subcategory has ended, by returning the markup or
\* by raising, the browser session it acquired is closed.
C2_SessionClosedOnExit ==
    \A i \in Tasks :
        (task[i].st \in {"get_subcategory_odds", "for_event", "done", "failed"}
            /\ task[i].driver # "none")
        => task[i].driver = "closed"

\* C3: when the fetch of a subcategory fails, gather_odds stores no table in
\* self.df and goes no further than raising; what it raises is the error of
\* the failed fetch (of the first in list order when several failed).
C3_FailurePropagates ==
    Failed # {}
    => /\ df[cat] = None
       /\ pc \in {"seq", "submit", "collect", "shutdown", "crashed"}
       /\ (pc = "crashed" => exc = task[FirstFailed].exc)

C3_Witness ==
    /\ pc = "crashed"
    /\ multithread
    /\ Failed # {}
    /\ \E i \in Tasks :
          task[i].st = "done" /\ Get(task[i].result).rows # <<>>

\* C4: a file written in the current run of get_odds was written after both
\* categories were gathered with no fetch failed, and holds both tables; so
\* a run with a failed fetch writes nothing.
C4_CsvOnlyAfterFullSuccess ==
    (csv # None /\ Get(csv).run = runs)
    => /\ pc \in {"sleep", "get_odds"}
       /\ df[1] # None
       /\ df[2] # None
       /\ Failed = {}
       /\ Get(csv).table = Add(df[1], df[2])

C4_Witness ==
    /\ pc = "crashed"
    /\ csv # None
    /\ Get(csv).run = runs - 1
    /\ Get(csv).table.rows # <<>>

\* the columns that no reading of the clock enters
ClockFreeColumns ==
    {"player_name", "over_under_total", "odds", "odd_type", "home_team",
     "away_team", "game_time_local", "main_category_type",
     "sub_category_type"}

\* table[ClockFreeColumns]
ClockFree(table) ==
    [columns |-> table.columns \cap ClockFreeColumns,
     rows    |-> [i \in DOMAIN table.rows |->
                    [c \in (DOMAIN table.rows[i]) \cap ClockFreeColumns |->
                        table.rows[i][c]]]]

\* gather_odds has stored the table of main category c (and the calls of c
\* are still the ones in task)
Gathered(c) ==
    \/ c = 1 /\ pc = "gather" /\ cat = 2
    \/ c = 2 /\ pc = "add"

\* gather_odds_for_subcategory (lines 62-64) for subcategory i of main
\* category c, no fetch failing, as a function of the page and of what the
\* clock returned to the call: rd.time_local_ and rd.time_utc_ are the
\* stamps of lines 191 and 192, rd.parsed_at what each EventInfo was given
CallTable(c, i, rd) ==
    IF EventsOf(c, i) = <<>> THEN NoEventsTable
    ELSE Get(SubcategoryTable(
                [NewTask EXCEPT !.time_local_ = rd.time_local_,
                                !.time_utc_ = rd.time_utc_],
                EventsOf(c, i), i, categories[c].name, Subcategories(c)[i],
                rd.parsed_at, tz).result)

\* lines 76-78: the calls in list order, their tables concatenated
SequentialTable(c, reads) ==
    Concat([i \in 1..Len(Subcategories(c)) |-> CallTable(c, i, reads[i])])

\* the number of times the calls before call i read the clock: each call
\* reads it at line 191, at line 192 and once for each event of its page
RECURSIVE ReadsBefore(_, _)
ReadsBefore(c, i) ==
    IF i = 1 THEN 0
    ELSE ReadsBefore(c, i - 1) + 2 + Len(EventsOf(c, i - 1))

\* what the calls of the sequential mode are given when the readings of the
\* clock are rs in turn: one call reads after the other, in list order
SequentialReads(c, rs) ==
    [i \in 1..Len(Subcategories(c)) |->
        [time_local_ |-> Some(StrfLocal(rs[ReadsBefore(c, i) + 1], tz)),
         time_utc_   |-> Some(StrfUtc(rs[ReadsBefore(c, i) + 2])),
         parsed_at   |-> SubSeq(rs, ReadsBefore(c, i) + 3,
                                ReadsBefore(c, i + 1))]]

\* the tables gather_odds can store for main category c with
\* multithread=False
SequentialTables(c) ==
    {SequentialTable(c, SequentialReads(c, rs)) :
        rs \in ReadingSeqs(ClockStart,
                           ReadsBefore(c, Len(Subcategories(c)) + 1))}

\* what the clock returned to the calls of the category just gathered
TaskReads ==
    [i \in Tasks |-> [time_local_ |-> task[i].time_local_,
                      time_utc_   |-> task[i].time_utc_,
                      parsed_at   |-> task[i].parsed_at]]

\* C5, as the spec states it: for the same list of subcategories and the
\* same markup, no fetch failing, the category table gather_odds stores,
\* with multithread=True under every interleaving of the workers as with
\* multithread=False, holds a multiset of rows that the sequential mode
\* produces.
C5_ModesAgree ==
    \A c \in 1..2 :
        Gathered(c)
        => RowBag(Get(df[c])) \in {RowBag(t) : t \in SequentialTables(c)}

\* C5, corrected: under every interleaving the table of either mode holds
\* the sequential mode's multiset of rows in the columns that no clock
\* reading enters; in the other columns (game_date, game_time_utc,
\* time_now_local, time_now_utc) it holds what the sequential computation
\* gives on the clock readings of its own calls, so the full rows agree
\* when each call is given the same readings in both modes.  The table of
\* the sequential mode is one of SequentialTables.
C5_ModesAgreeOffClock ==
    \A c \in 1..2 :
        Gathered(c)
        => /\ \A t \in SequentialTables(c) :
                 RowBag(ClockFree(Get(df[c]))) = RowBag(ClockFree(t))
           /\ RowBag(Get(df[c])) = RowBag(SequentialTable(c, TaskReads))
           /\ ~multithread => Get(df[c]) \in SequentialTables(c)

\* the worker of subcategory 3 read the clock before that of subcategory 1,
\* and the table holds rows that no sequential run holds together
C5_Witness ==
    /\ Gathered(1)
    /\ multithread
    /\ Get(df[1]).rows # <<>>
    /\ Len(task) >= 3
    /\ task[1].parsed_at # <<>>
    /\ task[3].parsed_at # <<>>
    /\ task[3].parsed_at[1] < task[1].parsed_at[1]
    /\ RowBag(Get(df[1])) \notin {RowBag(t) : t \in SequentialTables(1)}

\* C6: every row of the table a subcategory returns carries the labels of
\* its category and subcategory and the two timestamps taken when the markup
\* was captured.
C6_OneSnapshotPerFetch ==
    [][\A i \in Tasks :
          (task[i].st \in {"get_subcategory_odds", "for_event"}
              /\ task'[i].st = "done")
          => LET rows == Get(task'[i].result).rows
             IN  \A k \in DOMAIN rows :
                    /\ rows[k]["time_now_local"] = Get(task[i].time_local_)
                    /\ rows[k]["time_now_utc"] = Get(task[i].time_utc_)
                    /\ rows[k]["main_category_type"] = Label(categories[cat].name)
                    /\ rows[k]["sub_category_type"] = Label(Subcategories(cat)[i])]_vars

\* a table was stamped after the clock had moved on from the capture
C6_Witness ==
    \E i \in Tasks :
        /\ task[i].st = "done"
        /\ Len(Get(task[i].result).rows) >= 2
        /\ StrfUtc(task[i].parsed_at[1]) # Get(task[i].time_utc_)

\* the text the claim of C7 describes: tag, one whitespace, digits, ".",
\* digits, a sign out of "+", "-" and the minus sign, digits
ClaimedOdds(t) ==
    LET n  == Len(t)
        i1 == DigitsEnd(t, 3)
        i2 == DigitsEnd(t, i1 + 1)
        i3 == DigitsEnd(t, i2 + 1)
    IN  /\ n >= 2
        /\ t[1] \in {"O", "U"}
        /\ t[2] \in WhiteSpace
        /\ i1 > 3 /\ i1 <= n /\ t[i1] = "."
        /\ i2 > i1 + 1 /\ i2 <= n /\ t[i2] \in {"+", "-", UMinus}
        /\ i3 > i2 + 1
        /\ i3 = n + 1

ClaimedValue(t) ==
    LET i1 == DigitsEnd(t, 3)
        i2 == DigitsEnd(t, i1 + 1)
        magnitude == DigitsVal(SubSeq(t, i2 + 1, Len(t)))
    IN  <<Some(ToFloat(SubSeq(t, 3, i1 - 1), SubSeq(t, i1 + 1, i2 - 1))),
          Some(IF t[i2] = "+" THEN magnitude ELSE 0 - magnitude)>>

\* C7: clean_odds returns (total, odds), with odds below zero exactly for a
\* sign "-" or minus sign, on a text of the described form, and (None, None)
\* on any other text.
C7_CleanOddsContract ==
    cleaned # None
    => Get(cleaned) = IF ClaimedOdds(Get(text)) THEN ClaimedValue(Get(text))
                      ELSE <<None, None>>

\* how many rows the table of an event has after its header row
PlayerCount(event) == Len(Get(event.table)) - 1

RECURSIVE RowsBefore(_, _)
RowsBefore(events, e) ==
    IF e = 1 THEN 0
    ELSE RowsBefore(events, e - 1) + 2 * PlayerCount(events[e - 1])

\* C8: the table of a page with events holds, event after event and table
\* row after table row, an Over row then an Under row of the same player,
\* each with the teams, date and times of its own event block, and no other
\* row.
C8_TwoRowsPerPlayer ==
    \A i \in Tasks :
        (task[i].st = "done" /\ get_all_events(Get(task[i].soup)) # <<>>)
        => LET events == get_all_events(Get(task[i].soup))
               rows   == Get(task[i].result).rows
           IN  /\ Len(rows) = RowsBefore(events, Len(events) + 1)
               /\ \A e \in DOMAIN events :
                    \A p \in 1..PlayerCount(events[e]) :
                       LET over  == rows[RowsBefore(events, e) + 2 * p - 1]
                           under == rows[RowsBefore(events, e) + 2 * p]
                           th    == Get(Get(events[e].table)[p + 1].th)
                           texts == LastButOne(Get(events[e].div))
                           teams == split_teams(texts[1])
                           info  == EventInfo(teams[2], teams[1], texts[2],
                                              task[i].parsed_at[e], tz)
                       IN  /\ over["odd_type"] = "Over"
                           /\ under["odd_type"] = "Under"
                           /\ over["player_name"] = under["player_name"]
                           /\ over["player_name"] = SplitFirst3(th, <<"N", "e", "w">>)
                           /\ \A r \in {over, under} :
                                 /\ r["home_team"] = teams[2]
                                 /\ r["away_team"] = teams[1]
                                 /\ r["game_date"] = info.game_date
                                 /\ r["game_time_local"] = info.game_time_local
                                 /\ r["game_time_utc"] = info.game_time_utc

\* two events of three players each: twelve rows
C8_Witness ==
    \E i \in Tasks :
        /\ task[i].st = "done"
        /\ Len(get_all_events(Get(task[i].soup))) = 2
        /\ \A e \in {1, 2} : PlayerCount(get_all_events(Get(task[i].soup))[e]) = 3
        /\ Len(Get(task[i].result).rows) = 12

\* C9: with -m every gather_odds runs on the worker pool, without -m every
\* gather_odds runs sequentially.
C9_FlagEnablesMultithreading ==
    /\ pc \in {"submit", "collect", "shutdown"} => argv.m
    /\ pc = "seq" => ~argv.m

\* has the call for subcategory i called driver_initializer and got its
\* answer: a session of its own, or the exception of line 104
AskedForSession(i) ==
    \/ task[i].driver # "none"
    \/ task[i].exc # None /\ Get(task[i].exc).line = 104

\* C10: in concurrent mode every subcategory is submitted before a result is
\* read, and gather_odds ends (returning or raising) only when the call of
\* every subcategory has begun, asked for its own session and ended.
C10_NoCancellation ==
    /\ pc \in {"collect", "shutdown"} => \A i \in Tasks : task[i].st # "new"
    /\ (pc \in {"concat", "crashed"} /\ multithread)
          => \A i \in Tasks : Finished(i) /\ AskedForSession(i)

\* the first fetch failed and every call behind it still ran to its end
C10_Witness ==
    /\ pc = "crashed"
    /\ multithread
    /\ Len(task) >= 3
    /\ task[1].st = "failed"
    /\ \A i \in Tasks :
          i > 1 => task[i].st = "done" /\ task[i].driver = "closed"

====
